---- MODULE Spec2Model ----
(***************************************************************************)
(* jot-mcp: the SQLite store (database.ts), the repository over it         *)
(* (repository.ts) and the operations the service forwards to it.          *)
(*                                                                         *)
(* The database is one record `db` whose fields are the tables.  Every     *)
(* SQL statement the repository prepares is an operator from a database    *)
(* to a result [db, ok, ...]; better-sqlite3 runs each statement in        *)
(* autocommit mode, so a statement either applies completely (with its     *)
(* triggers and foreign-key actions) or raises and changes nothing, and    *)
(* the statements that ran before it in the same method stay applied.      *)
(***************************************************************************)
EXTENDS Integers, Sequences, FiniteSets, TLC

(***************************************************************************)
(* Bounds of the model.                                                    *)
(***************************************************************************)
MaxTime == 2      \* the clock Date.now() runs over 1..MaxTime
MaxCtxId == 2     \* AUTOINCREMENT ids handed out for contexts
MaxJotId == 2     \* AUTOINCREMENT ids handed out for jots
MaxImmediates == 2  \* setImmediate callbacks waiting at one time

(***************************************************************************)
(* Values.  SQL NULL / JS null in an integer column is NULL; in a text     *)
(* column it is NullText.  A message is its sequence of words (the text    *)
(* is the words joined by blanks), which is what the FTS5 tokenizer makes  *)
(* of it.                                                                  *)
(***************************************************************************)
NULL == -1
NullText == "<null>"
UndefinedText == "<undefined>"

Names == {"proj", "docs"}
CtxIdArgs == 1..MaxCtxId
JotIdArgs == 1..MaxJotId

Range(s) == {s[i] : i \in DOMAIN s}

(***************************************************************************)
(* State.                                                                  *)
(*   db        the database file: tables contexts, jots, tags, metadata,   *)
(*             the full-text index jots_fts and the AUTOINCREMENT          *)
(*             counters of sqlite_sequence                                 *)
(*   now       Date.now()                                                  *)
(*   ret       the last repository call: its name, arguments, result and   *)
(*             whether it raised (for the sweep also the rows its DELETE   *)
(*             removed, of which result.changes is the count)              *)
(*   upserted  per name, the id the latest upsertContext(name) returned    *)
(*             since the last deleteContext (0: none)                      *)
(*   immediates  the setImmediate callbacks of the server that were        *)
(*             scheduled and did not run yet (each is cleanupExpired)      *)
(*   inflight  per server process sharing the database file, where its     *)
(*             upsertContext call stands between its statements            *)
(***************************************************************************)
VARIABLES db, now, ret, upserted, immediates, inflight

vars == <<db, now, ret, upserted, immediates, inflight>>

\* the server processes that share one database file
Procs == {1, 2}

\* a process that is not inside upsertContext
Idle == [pc |-> "idle"]

\* what ret holds before the first call
NoReturn == [op |-> "none"]

\* a location that was never initialized: no directory, no database file
NoStore ==
  [dir |-> FALSE, schema |-> <<>>,
   contexts |-> {}, jots |-> {}, tags |-> {}, metadata |-> {}, jots_fts |-> {},
   seq_contexts |-> 0, seq_jots |-> 0]

\* the objects createSchema creates, in the order of its statements
SchemaObjects ==
  <<"contexts", "jots", "tags", "metadata",
    "idx_contexts_updated_at", "idx_jots_context_id", "idx_jots_created_at",
    "idx_jots_expires_at", "idx_tags_tag",
    "jots_fts", "jots_ai", "jots_ad", "jots_au">>

Tables == {"contexts", "jots", "tags", "metadata", "jots_fts"}

\* faulty variant: CREATE without IF NOT EXISTS raises when the object exists
CreateIfNotExists_Unconditional(d, name) ==
  IF name \in Range(d.schema)
  THEN [db |-> d, threw |-> TRUE]
  ELSE IF name \in Tables
       THEN [db |-> [d EXCEPT !.schema = Append(@, name), ![name] = {}], threw |-> FALSE]
       ELSE [db |-> [d EXCEPT !.schema = Append(@, name)], threw |-> FALSE]

\* CREATE TABLE / INDEX / VIRTUAL TABLE / TRIGGER IF NOT EXISTS name: nothing
\* when the object exists, else the object is recorded, a table without rows
CreateIfNotExists(d, name) ==
  IF name \in Range(d.schema)
  THEN [db |-> d, threw |-> FALSE]
  ELSE IF name \in Tables
       THEN [db |-> [d EXCEPT !.schema = Append(@, name), ![name] = {}], threw |-> FALSE]
       ELSE [db |-> [d EXCEPT !.schema = Append(@, name)], threw |-> FALSE]

\* createSchema: the statements in order, up to the first that raises
RECURSIVE createSchemaFrom(_, _)
createSchemaFrom(d, i) ==
  IF i > Len(SchemaObjects) THEN [db |-> d, threw |-> FALSE]
  ELSE LET r == CreateIfNotExists(d, SchemaObjects[i])
       IN IF r.threw THEN r ELSE createSchemaFrom(r.db, i + 1)

createSchema(d) == createSchemaFrom(d, 1)

\* initializeDatabase: mkdirSync(dirname(dbPath), {recursive: true}), open the
\* file, createSchema
initializeDatabaseCall(d) == createSchema([d EXCEPT !.dir = TRUE])

EmptyDb == initializeDatabaseCall(NoStore).db

(***************************************************************************)
(* Schema: the statements and what the schema makes of them.               *)
(***************************************************************************)

\* INSERT INTO contexts: name TEXT NOT NULL UNIQUE, id AUTOINCREMENT
InsertContext(d, name, repository, t) ==
  IF \E c \in d.contexts : c.name = name
  THEN [db |-> d, ok |-> FALSE, lastInsertRowid |-> 0]
  ELSE LET id == d.seq_contexts + 1
       IN [db |-> [d EXCEPT !.contexts = @ \cup
                       {[id |-> id, name |-> name, repository |-> repository,
                         created_at |-> t, updated_at |-> t]},
                     !.seq_contexts = id],
           ok |-> TRUE, lastInsertRowid |-> id]

\* the index entry of a jots row: jots_fts(rowid, jot_id, message)
FtsEntry(j) == [rowid |-> j.id, message |-> j.message]

\* trigger jots_ai AFTER INSERT: index the new row
jots_ai(fts, new) == fts \cup {FtsEntry(new)}

\* trigger jots_ad AFTER DELETE: the FTS5 'delete' command for the old row
jots_ad(fts, old) == fts \ {FtsEntry(old)}

\* faulty variant: the old row's entry is not deleted
jots_au_KeepsOld(fts, old, new) == jots_ai(fts, new)

\* trigger jots_au AFTER UPDATE: 'delete' the old row's entry, index the new row
jots_au(fts, old, new) == jots_ai(jots_ad(fts, old), new)

\* a trigger fires once per affected row
RECURSIVE jots_ad_each(_, _)
jots_ad_each(fts, rows) ==
  IF rows = {} THEN fts
  ELSE LET j == CHOOSE x \in rows : TRUE
       IN jots_ad_each(jots_ad(fts, j), rows \ {j})

\* faulty variant: the foreign key of jots.context_id is not enforced
InsertJot_NoForeignKey(d, contextId, message, t, expiresAt) ==
  LET id == d.seq_jots + 1
      row == [id |-> id, context_id |-> contextId, message |-> message,
              created_at |-> t, updated_at |-> t, expires_at |-> expiresAt]
  IN [db |-> [d EXCEPT !.jots = @ \cup {row},
                       !.jots_fts = jots_ai(@, row),
                       !.seq_jots = id],
      ok |-> TRUE, lastInsertRowid |-> id]

\* faulty variant: id INTEGER PRIMARY KEY without AUTOINCREMENT, the new id
\* is one more than the largest stored one
InsertJot_ReusesRowid(d, contextId, message, t, expiresAt) ==
  IF ~(\E c \in d.contexts : c.id = contextId)
  THEN [db |-> d, ok |-> FALSE, lastInsertRowid |-> 0]
  ELSE LET id == IF d.jots = {} THEN 1
                 ELSE 1 + (CHOOSE m \in {j.id : j \in d.jots} : \A j \in d.jots : j.id <= m)
           row == [id |-> id, context_id |-> contextId, message |-> message,
                   created_at |-> t, updated_at |-> t, expires_at |-> expiresAt]
       IN [db |-> [d EXCEPT !.jots = @ \cup {row},
                            !.jots_fts = jots_ai(@, row),
                            !.seq_jots = id],
           ok |-> TRUE, lastInsertRowid |-> id]

\* INSERT INTO jots: FOREIGN KEY (context_id) REFERENCES contexts(id), trigger jots_ai
InsertJot(d, contextId, message, t, expiresAt) ==
  IF ~(\E c \in d.contexts : c.id = contextId)
  THEN [db |-> d, ok |-> FALSE, lastInsertRowid |-> 0]
  ELSE LET id == d.seq_jots + 1
           row == [id |-> id, context_id |-> contextId, message |-> message,
                   created_at |-> t, updated_at |-> t, expires_at |-> expiresAt]
       IN [db |-> [d EXCEPT !.jots = @ \cup {row},
                            !.jots_fts = jots_ai(@, row),
                            !.seq_jots = id],
           ok |-> TRUE, lastInsertRowid |-> id]

\* INSERT INTO tags (jot_id, tag): FOREIGN KEY (jot_id), UNIQUE(jot_id, tag)
InsertTag(d, jotId, tag) ==
  IF ~(\E j \in d.jots : j.id = jotId)
     \/ (\E r \in d.tags : r.jot_id = jotId /\ r.tag = tag)
  THEN [db |-> d, ok |-> FALSE]
  ELSE [db |-> [d EXCEPT !.tags = @ \cup {[jot_id |-> jotId, tag |-> tag]}],
        ok |-> TRUE]

\* INSERT INTO metadata (jot_id, key, value): FOREIGN KEY (jot_id), UNIQUE(jot_id, key)
InsertMeta(d, jotId, key, value) ==
  IF ~(\E j \in d.jots : j.id = jotId)
     \/ (\E r \in d.metadata : r.jot_id = jotId /\ r.key = key)
  THEN [db |-> d, ok |-> FALSE]
  ELSE [db |-> [d EXCEPT !.metadata = @ \cup
                  {[jot_id |-> jotId, key |-> key, value |-> value]}],
        ok |-> TRUE]

\* UPDATE contexts SET updated_at = ? WHERE id = ?
TouchContext(d, t, contextId) ==
  [d EXCEPT !.contexts =
     {IF c.id = contextId THEN [c EXCEPT !.updated_at = t] ELSE c : c \in @}]

\* UPDATE jots SET message = ?, expires_at = ?, updated_at = ? WHERE id = ?
\* with trigger jots_au (delete the old index entry, insert the new one)
UpdateJotRow(d, message, expiresAt, t, id) ==
  IF ~(\E j \in d.jots : j.id = id) THEN d
  ELSE LET old == CHOOSE j \in d.jots : j.id = id
           new == [old EXCEPT !.message = message, !.expires_at = expiresAt,
                              !.updated_at = t]
       IN [d EXCEPT !.jots = (@ \ {old}) \cup {new},
                    !.jots_fts = jots_au(@, old, new)]

\* DELETE FROM tags WHERE jot_id = ?
DeleteTags(d, jotId) == [d EXCEPT !.tags = {r \in @ : r.jot_id # jotId}]

\* DELETE FROM metadata WHERE jot_id = ?
DeleteMetadata(d, jotId) == [d EXCEPT !.metadata = {r \in @ : r.jot_id # jotId}]

\* deleting the jot rows `gone`: ON DELETE CASCADE on tags and metadata,
\* trigger jots_ad on each deleted row
DeleteJotRows(d, gone) ==
  LET ids == {j.id : j \in gone}
  IN [d EXCEPT !.jots = @ \ gone,
               !.tags = {r \in @ : r.jot_id \notin ids},
               !.metadata = {r \in @ : r.jot_id \notin ids},
               !.jots_fts = jots_ad_each(@, gone)]

\* faulty variant: the context row goes, ON DELETE CASCADE does not happen
DeleteContextRows_NoCascade(d, contextId) ==
  LET gone == {c \in d.contexts : c.id = contextId}
  IN [db |-> [d EXCEPT !.contexts = @ \ gone], changes |-> Cardinality(gone)]

\* deleting the context rows with id `contextId`: ON DELETE CASCADE on jots
DeleteContextRows(d, contextId) ==
  LET gone == {c \in d.contexts : c.id = contextId}
      cascaded == DeleteJotRows(d, {j \in d.jots : j.context_id = contextId})
  IN [db |-> [cascaded EXCEPT !.contexts = @ \ gone],
      changes |-> Cardinality(gone)]

(***************************************************************************)
(* JotRepository: reads.                                                   *)
(***************************************************************************)

\* faulty variant: the join has no condition, every jot counts for every context
mapContext_CountsAllJots(d, c) ==
  [id |-> c.id, name |-> c.name, repository |-> c.repository,
   createdAt |-> c.created_at, updatedAt |-> c.updated_at,
   jotCount |-> Cardinality(d.jots)]

\* mapContext over the row of the LEFT JOIN ... GROUP BY c.id query
mapContext(d, c) ==
  [id |-> c.id, name |-> c.name, repository |-> c.repository,
   createdAt |-> c.created_at, updatedAt |-> c.updated_at,
   jotCount |-> Cardinality({j \in d.jots : j.context_id = c.id})]

NoContext == [id |-> 0]
NoJot == [id |-> 0]

getContext(d, id) ==
  IF \E c \in d.contexts : c.id = id
  THEN mapContext(d, CHOOSE c \in d.contexts : c.id = id)
  ELSE NoContext

getContextByName(d, name) ==
  IF \E c \in d.contexts : c.name = name
  THEN mapContext(d, CHOOSE c \in d.contexts : c.name = name)
  ELSE NoContext

\* mapJot: the row with its tags and metadata (SELECT without ORDER BY: the
\* tags are a set, the metadata an object keyed by key)
mapJot(d, row) ==
  [id |-> row.id, contextId |-> row.context_id, message |-> row.message,
   createdAt |-> row.created_at, updatedAt |-> row.updated_at,
   expiresAt |-> row.expires_at,
   tags |-> {r.tag : r \in {x \in d.tags : x.jot_id = row.id}},
   metadata |-> {<<r.key, r.value>> : r \in {x \in d.metadata : x.jot_id = row.id}}]

\* faulty variant: WHERE id = ? AND (expires_at IS NULL OR expires_at > now)
getJot_HidesExpired(d, id) ==
  IF \E j \in d.jots : j.id = id /\ (j.expires_at = NULL \/ j.expires_at > now)
  THEN mapJot(d, CHOOSE j \in d.jots : j.id = id)
  ELSE NoJot

getJot(d, id) ==
  IF \E j \in d.jots : j.id = id
  THEN mapJot(d, CHOOSE j \in d.jots : j.id = id)
  ELSE NoJot

\* faulty variant: ORDER BY c.updated_at ASC
listContexts_OldestFirst(d) ==
  {[i \in DOMAIN s |-> mapContext(d, s[i])] :
     s \in {q \in [1..Cardinality(d.contexts) -> d.contexts] :
              /\ \A i, k \in DOMAIN q : i # k => q[i] # q[k]
              /\ \A i, k \in DOMAIN q : i < k => q[i].updated_at <= q[k].updated_at}}

\* listContexts: GROUP BY c.id ORDER BY c.updated_at DESC, any order of the
\* rows that respects it
listContexts(d) ==
  {[i \in DOMAIN s |-> mapContext(d, s[i])] :
     s \in {q \in [1..Cardinality(d.contexts) -> d.contexts] :
              /\ \A i, k \in DOMAIN q : i # k => q[i] # q[k]
              /\ \A i, k \in DOMAIN q : i < k => q[i].updated_at >= q[k].updated_at}}

\* the WHERE clause of getExpiringSoon at time t with threshold th
ExpiringRows(d, t, th) ==
  {j \in d.jots : j.expires_at # NULL /\ j.expires_at > t /\ j.expires_at <= th}

\* faulty variant: expires_at >= now
getExpiringSoon_IncludesNow(d, t, days) ==
  LET rows == {j \in d.jots : j.expires_at # NULL /\ j.expires_at >= t
                              /\ j.expires_at <= t + days * 24 * 60 * 60 * 1000}
  IN {[i \in DOMAIN s |-> mapJot(d, s[i])] :
        s \in {q \in [1..Cardinality(rows) -> rows] :
                 /\ \A i, k \in DOMAIN q : i # k => q[i] # q[k]
                 /\ \A i, k \in DOMAIN q : i < k => q[i].expires_at <= q[k].expires_at}}

\* getExpiringSoon(days) at time t: threshold = now + days * 24 * 60 * 60 * 1000,
\* ORDER BY expires_at ASC, any order of the rows that respects it
getExpiringSoon(d, t, days) ==
  LET rows == ExpiringRows(d, t, t + days * 24 * 60 * 60 * 1000)
  IN {[i \in DOMAIN s |-> mapJot(d, s[i])] :
        s \in {q \in [1..Cardinality(rows) -> rows] :
                 /\ \A i, k \in DOMAIN q : i # k => q[i] # q[k]
                 /\ \A i, k \in DOMAIN q : i < k => q[i].expires_at <= q[k].expires_at}}

(***************************************************************************)
(* JotRepository: the loops of createJot / updateJot.  Each returns the    *)
(* database after the statements that ran and whether one of them raised.  *)
(***************************************************************************)

\* for (const tag of tags) insertTag.run(id, tag)
RECURSIVE InsertTagsFrom(_, _, _, _)
InsertTagsFrom(d, id, tags, i) ==
  IF i > Len(tags) THEN [db |-> d, ok |-> TRUE]
  ELSE LET r == InsertTag(d, id, tags[i])
       IN IF r.ok THEN InsertTagsFrom(r.db, id, tags, i + 1)
          ELSE [db |-> r.db, ok |-> FALSE]

InsertTags(d, id, tags) == InsertTagsFrom(d, id, tags, 1)

\* for (const [key, value] of Object.entries(metadata)) insertMeta.run(id, key, value)
RECURSIVE InsertMetas(_, _, _)
InsertMetas(d, id, entries) ==
  IF entries = {} THEN [db |-> d, ok |-> TRUE]
  ELSE LET e == CHOOSE x \in entries : TRUE
           r == InsertMeta(d, id, e[1], e[2])
       IN IF r.ok THEN InsertMetas(r.db, id, entries \ {e})
          ELSE [db |-> r.db, ok |-> FALSE]

(***************************************************************************)
(* JotRepository: writes, as functions of the database and the clock.      *)
(* Each returns [db, threw, result].                                       *)
(***************************************************************************)

\* faulty variant: a plain INSERT, with no lookup and no unique index on the name
upsertContextCall_BlindInsert(d, t, name, repository) ==
  LET id == d.seq_contexts + 1
      row == [id |-> id, name |-> name,
              repository |-> IF repository \in {UndefinedText, ""} THEN NullText
                             ELSE repository,
              created_at |-> t, updated_at |-> t]
      d1 == [d EXCEPT !.contexts = @ \cup {row}, !.seq_contexts = id]
  IN [db |-> d1, threw |-> FALSE, result |-> mapContext(d1, row)]

\* faulty variant: an existing context takes the supplied repository
upsertContextCall_Overwrite(d, t, name, repository) ==
  LET stored == IF repository \in {UndefinedText, ""} THEN NullText ELSE repository
      ins == InsertContext(d, name, stored, t)
      d1 == [d EXCEPT !.contexts =
               {IF c.name = name THEN [c EXCEPT !.repository = stored] ELSE c : c \in @}]
  IN IF getContextByName(d, name) # NoContext
     THEN [db |-> d1, threw |-> FALSE, result |-> getContextByName(d1, name)]
     ELSE [db |-> ins.db, threw |-> FALSE,
           result |-> getContext(ins.db, ins.lastInsertRowid)]

upsertContextCall(d, t, name, repository) ==
  LET existing == getContextByName(d, name)
      ins == InsertContext(d, name,
                           IF repository \in {UndefinedText, ""} THEN NullText
                           ELSE repository, t)
  IN IF existing # NoContext
     THEN [db |-> d, threw |-> FALSE, result |-> existing]
     ELSE IF ~ins.ok
     THEN [db |-> d, threw |-> TRUE, result |-> NoContext]
     ELSE [db |-> ins.db, threw |-> FALSE,
           result |-> getContext(ins.db, ins.lastInsertRowid)]

deleteContextCall(d, id) ==
  LET r == DeleteContextRows(d, id)
  IN [db |-> r.db, threw |-> FALSE, result |-> r.changes > 0]

createJotCall(d, t, contextId, message, expiresAt, tags, metadata) ==
  LET ins == InsertJot(d, contextId, message, t, expiresAt)
      id == ins.lastInsertRowid
      tagged == InsertTags(ins.db, id, tags)
      metad == InsertMetas(tagged.db, id, metadata)
      touched == TouchContext(metad.db, t, contextId)
  IN IF ~ins.ok THEN [db |-> d, threw |-> TRUE, result |-> NoJot]
     ELSE IF ~tagged.ok THEN [db |-> tagged.db, threw |-> TRUE, result |-> NoJot]
     ELSE IF ~metad.ok THEN [db |-> metad.db, threw |-> TRUE, result |-> NoJot]
     ELSE [db |-> touched, threw |-> FALSE, result |-> getJot(touched, id)]

\* faulty variant: the UPDATE writes updates.message and updates.expiresAt
\* whether they are supplied or not
updateJotCall_WritesAllColumns(d, t, id, updates) ==
  LET existing == getJot(d, id)
      d1 == IF "message" \in updates.has \/ "expiresAt" \in updates.has
            THEN UpdateJotRow(d, updates.message, updates.expiresAt, t, id)
            ELSE d
      r2 == IF "tags" \in updates.has
            THEN InsertTags(DeleteTags(d1, id), id, updates.tags)
            ELSE [db |-> d1, ok |-> TRUE]
      r3 == IF "metadata" \in updates.has
            THEN InsertMetas(DeleteMetadata(r2.db, id), id, updates.metadata)
            ELSE [db |-> r2.db, ok |-> TRUE]
      d4 == TouchContext(r3.db, t, existing.contextId)
  IN IF existing = NoJot THEN [db |-> d, threw |-> FALSE, result |-> NoJot]
     ELSE IF ~r2.ok THEN [db |-> r2.db, threw |-> TRUE, result |-> NoJot]
     ELSE IF ~r3.ok THEN [db |-> r3.db, threw |-> TRUE, result |-> NoJot]
     ELSE [db |-> d4, threw |-> FALSE, result |-> getJot(d4, id)]

\* updates.has: the keys of `updates` that are not undefined
updateJotCall(d, t, id, updates) ==
  LET existing == getJot(d, id)
      message == IF "message" \in updates.has THEN updates.message
                 ELSE existing.message
      expiresAt == IF "expiresAt" \in updates.has THEN updates.expiresAt
                   ELSE existing.expiresAt
      d1 == IF "message" \in updates.has \/ "expiresAt" \in updates.has
            THEN UpdateJotRow(d, message, expiresAt, t, id)
            ELSE d
      r2 == IF "tags" \in updates.has
            THEN InsertTags(DeleteTags(d1, id), id, updates.tags)
            ELSE [db |-> d1, ok |-> TRUE]
      r3 == IF "metadata" \in updates.has
            THEN InsertMetas(DeleteMetadata(r2.db, id), id, updates.metadata)
            ELSE [db |-> r2.db, ok |-> TRUE]
      d4 == TouchContext(r3.db, t, existing.contextId)
  IN IF existing = NoJot THEN [db |-> d, threw |-> FALSE, result |-> NoJot]
     ELSE IF ~r2.ok THEN [db |-> r2.db, threw |-> TRUE, result |-> NoJot]
     ELSE IF ~r3.ok THEN [db |-> r3.db, threw |-> TRUE, result |-> NoJot]
     ELSE [db |-> d4, threw |-> FALSE, result |-> getJot(d4, id)]

\* faulty variant: the delete stamps the context of the jot, as an update does
deleteJotCall_TouchesContext(d, id) ==
  LET gone == {j \in d.jots : j.id = id}
      d1 == DeleteJotRows(d, gone)
  IN [db |-> IF gone = {} THEN d1
             ELSE TouchContext(d1, now, (CHOOSE j \in gone : TRUE).context_id),
      threw |-> FALSE, result |-> Cardinality(gone) > 0]

deleteJotCall(d, id) ==
  LET gone == {j \in d.jots : j.id = id}
  IN [db |-> DeleteJotRows(d, gone), threw |-> FALSE,
      result |-> Cardinality(gone) > 0]

\* faulty variant: every jot with an expiration, whatever the time
ExpiredRows_IgnoreTime(d, t) == {j \in d.jots : j.expires_at # NULL}

\* faulty variant: expires_at < ?
ExpiredRows_Strict(d, t) == {j \in d.jots : j.expires_at # NULL /\ j.expires_at < t}

\* DELETE FROM jots WHERE expires_at IS NOT NULL AND expires_at <= ?
ExpiredRows(d, t) == {j \in d.jots : j.expires_at # NULL /\ j.expires_at <= t}

\* faulty variant: a call removes one expired row and leaves the rest
deleteExpiredJotsCall_OneRowPerCall(d, t) ==
  LET all == ExpiredRows(d, t)
      gone == IF all = {} THEN {} ELSE {CHOOSE j \in all : \A k \in all : j.id <= k.id}
  IN [db |-> DeleteJotRows(d, gone), threw |-> FALSE,
      result |-> Cardinality(gone), removed |-> gone]

deleteExpiredJotsCall(d, t) ==
  LET gone == ExpiredRows(d, t)
  IN [db |-> DeleteJotRows(d, gone), threw |-> FALSE,
      result |-> Cardinality(gone), removed |-> gone]

(***************************************************************************)
(* JotRepository.searchJots.  A numeric option is a number, NaN (what the  *)
(* handler makes of an unparseable date) or Undefined (not supplied); the  *)
(* code tests every option for truthiness.  An absent query or tag list is *)
(* the empty one, an absent includeExpired is FALSE.                       *)
(***************************************************************************)
NaN == -2
Undefined == -3

\* if (options.x): undefined, 0 and NaN are falsy
Truthy(x) == x # Undefined /\ x # 0 /\ x # NaN

NoRow == [none |-> TRUE]

\* jots_fts MATCH ?: every term of the query is a token of the indexed message
FtsMatch(e, query) == Range(query) \subseteq Range(e.message)

\* FROM jots j [JOIN jots_fts fts ON j.rowid = fts.rowid] [JOIN tags t ON j.id = t.jot_id]
SearchFrom(d, o) ==
  {row \in d.jots
          \X (IF o.query # <<>> THEN d.jots_fts ELSE {NoRow})
          \X (IF o.tags # <<>> THEN d.tags ELSE {NoRow}) :
     /\ o.query # <<>> => row[1].id = row[2].rowid
     /\ o.tags # <<>> => row[1].id = row[3].jot_id}

\* faulty variant: the expiration condition is never pushed
SearchWhere_NoExpiry(row, o, t) ==
  /\ Truthy(o.contextId) => row[1].context_id = o.contextId
  /\ o.query # <<>> => FtsMatch(row[2], o.query)
  /\ o.tags # <<>> => row[3].tag \in Range(o.tags)
  /\ Truthy(o.fromDate) => row[1].created_at >= o.fromDate
  /\ Truthy(o.toDate) => row[1].created_at <= o.toDate

\* faulty variant: a jot that expires at the query time is still shown
SearchWhere_ShowsExpiringNow(row, o, t) ==
  /\ Truthy(o.contextId) => row[1].context_id = o.contextId
  /\ o.query # <<>> => FtsMatch(row[2], o.query)
  /\ o.tags # <<>> => row[3].tag \in Range(o.tags)
  /\ Truthy(o.fromDate) => row[1].created_at >= o.fromDate
  /\ Truthy(o.toDate) => row[1].created_at <= o.toDate
  /\ ~o.includeExpired => (row[1].expires_at = NULL \/ row[1].expires_at >= t)

\* WHERE: the conditions pushed for the options that are truthy
SearchWhere(row, o, t) ==
  /\ Truthy(o.contextId) => row[1].context_id = o.contextId
  /\ o.query # <<>> => FtsMatch(row[2], o.query)
  /\ o.tags # <<>> => row[3].tag \in Range(o.tags)
  /\ Truthy(o.fromDate) => row[1].created_at >= o.fromDate
  /\ Truthy(o.toDate) => row[1].created_at <= o.toDate
  /\ ~o.includeExpired => (row[1].expires_at = NULL \/ row[1].expires_at > t)

\* faulty variant: SELECT without DISTINCT, one result row per joined row
SearchDistinct_PerJoinedRow(d, o, t) ==
  {[j |-> row[1], joined |-> <<row[2], row[3]>>] :
     row \in {r \in SearchFrom(d, o) : SearchWhere(r, o, t)}}

\* SELECT DISTINCT j.id, j.context_id, j.message, ...: the result rows hold
\* the columns of j only, and equal ones are one row
SearchDistinct(d, o, t) ==
  {[j |-> row[1], joined |-> <<NoRow, NoRow>>] :
     row \in {r \in SearchFrom(d, o) : SearchWhere(r, o, t)}}

\* ORDER BY j.created_at DESC: any order of the rows that respects it
OrderedByCreatedDesc(rows) ==
  {s \in [1..Cardinality(rows) -> rows] :
     /\ \A i, k \in DOMAIN s : i # k => s[i] # s[k]
     /\ \A i, k \in DOMAIN s : i < k => s[i].j.created_at >= s[k].j.created_at}

\* LIMIT ?: appended when limit is truthy; a negative LIMIT is no limit in SQLite
Limited(s, limit) ==
  IF Truthy(limit) /\ limit >= 0 /\ limit < Len(s) THEN SubSeq(s, 1, limit) ELSE s

\* the rows of s without the later copies of a jot
FirstOfEachJot(s) ==
  LET keep == {i \in DOMAIN s : \A k \in 1..(i - 1) : s[k].j # s[i].j}
  IN [n \in 1..Cardinality(keep) |->
        s[CHOOSE i \in keep : Cardinality({k \in keep : k <= i}) = n]]

\* faulty variant: the LIMIT counts joined rows, copies are dropped afterwards
searchJots_LimitBeforeDistinct(d, o, t) ==
  {[i \in DOMAIN FirstOfEachJot(Limited(s, o.limit)) |->
       mapJot(d, FirstOfEachJot(Limited(s, o.limit))[i].j)] :
     s \in OrderedByCreatedDesc(SearchDistinct_PerJoinedRow(d, o, t))}

\* the results searchJots may return: rows.map(mapJot)
searchJots(d, o, t) ==
  {[i \in DOMAIN Limited(s, o.limit) |-> mapJot(d, Limited(s, o.limit)[i].j)] :
     s \in OrderedByCreatedDesc(SearchDistinct(d, o, t))}

(***************************************************************************)
(* The calls, as actions.                                                  *)
(***************************************************************************)
Init ==
  /\ db = EmptyDb
  /\ now = 1
  /\ ret = [op |-> "none"]
  /\ upserted = [n \in Names |-> 0]
  /\ immediates = 0
  /\ inflight = [p \in Procs |-> Idle]

\* the clock advances between calls
Tick ==
  /\ now < MaxTime
  /\ now' = now + 1
  /\ UNCHANGED <<db, ret, upserted, immediates, inflight>>

upsertContext(name, repository) ==
  LET r == upsertContextCall(db, now, name, repository)
  IN /\ getContextByName(db, name) # NoContext \/ db.seq_contexts < MaxCtxId
     /\ db' = r.db
     /\ ret' = [op |-> "upsertContext", args |-> <<name, repository>>,
                threw |-> r.threw, result |-> r.result]
     /\ upserted' = IF r.threw THEN upserted
                    ELSE [upserted EXCEPT ![name] = r.result.id]
     /\ UNCHANGED <<immediates, inflight>>
     /\ UNCHANGED now

deleteContext(id) ==
  LET r == deleteContextCall(db, id)
  IN /\ db' = r.db
     /\ ret' = [op |-> "deleteContext", args |-> <<id>>,
                threw |-> r.threw, result |-> r.result]
     /\ upserted' = [n \in Names |-> IF upserted[n] = id THEN 0 ELSE upserted[n]]
     /\ UNCHANGED <<immediates, inflight>>
     /\ UNCHANGED now

createJot(contextId, message, expiresAt, tags, metadata) ==
  LET r == createJotCall(db, now, contextId, message, expiresAt, tags, metadata)
  IN /\ db.seq_jots < MaxJotId
     /\ db' = r.db
     /\ ret' = [op |-> "createJot",
                args |-> <<contextId, message, expiresAt, tags, metadata>>,
                threw |-> r.threw, result |-> r.result]
     /\ UNCHANGED <<now, upserted, immediates, inflight>>

updateJot(id, updates) ==
  LET r == updateJotCall(db, now, id, updates)
  IN /\ db' = r.db
     /\ ret' = [op |-> "updateJot", args |-> <<id, updates>>,
                threw |-> r.threw, result |-> r.result]
     /\ UNCHANGED <<now, upserted, immediates, inflight>>

deleteJot(id) ==
  LET r == deleteJotCall(db, id)
  IN /\ db' = r.db
     /\ ret' = [op |-> "deleteJot", args |-> <<id>>,
                threw |-> r.threw, result |-> r.result]
     /\ UNCHANGED <<now, upserted, immediates, inflight>>

deleteExpiredJots ==
  LET r == deleteExpiredJotsCall(db, now)
  IN /\ db' = r.db
     /\ ret' = [op |-> "deleteExpiredJots", args |-> <<now>>,
                threw |-> r.threw, result |-> r.result, removed |-> r.removed]
     /\ UNCHANGED <<now, upserted, immediates, inflight>>

search(o) ==
  \E s \in searchJots(db, o, now) :
     /\ ret' = [op |-> "searchJots", args |-> <<o, now>>,
                threw |-> FALSE, result |-> s]
     /\ UNCHANGED <<db, now, upserted, immediates, inflight>>

(***************************************************************************)
(* JotService: contexts addressed by id or by name.  idOrName is a record  *)
(* [type, id, name]; type is what typeof gives.                            *)
(***************************************************************************)
ById(id) == [type |-> "number", id |-> id, name |-> ""]
ByName(name) == [type |-> "string", id |-> 0, name |-> name]

JotService_getContext(d, idOrName) ==
  IF idOrName.type = "number" THEN getContext(d, idOrName.id)
  ELSE getContextByName(d, idOrName.name)

\* faulty variant: reports a deletion even when no context matched
JotService_deleteContextCall_AlwaysTrue(d, idOrName) ==
  LET context == JotService_getContext(d, idOrName)
  IN IF context = NoContext THEN [db |-> d, threw |-> FALSE, result |-> TRUE]
     ELSE deleteContextCall(d, context.id)

JotService_deleteContextCall(d, idOrName) ==
  LET context == JotService_getContext(d, idOrName)
  IN IF context = NoContext THEN [db |-> d, threw |-> FALSE, result |-> FALSE]
     ELSE deleteContextCall(d, context.id)

JotService_deleteContext(idOrName) ==
  LET r == JotService_deleteContextCall(db, idOrName)
      gone == JotService_getContext(db, idOrName).id
  IN /\ db' = r.db
     /\ ret' = [op |-> "JotService.deleteContext", args |-> <<idOrName>>,
                threw |-> r.threw, result |-> r.result]
     /\ upserted' = [n \in Names |-> IF upserted[n] = gone THEN 0 ELSE upserted[n]]
     /\ UNCHANGED <<immediates, inflight>>
     /\ UNCHANGED now

\* the reads: JotService.getContext and JotRepository.getJot
readContext(idOrName) ==
  /\ ret' = [op |-> "getContext", args |-> <<idOrName>>, threw |-> FALSE,
             result |-> JotService_getContext(db, idOrName)]
  /\ UNCHANGED <<db, now, upserted, immediates, inflight>>

readContexts ==
  \E s \in listContexts(db) :
     /\ ret' = [op |-> "listContexts", args |-> <<>>, threw |-> FALSE, result |-> s]
     /\ UNCHANGED <<db, now, upserted, immediates, inflight>>

initializeDatabase ==
  LET r == initializeDatabaseCall(db)
  IN /\ db' = r.db
     /\ ret' = [op |-> "initializeDatabase", args |-> <<>>, threw |-> r.threw,
                result |-> IF r.threw THEN "none" ELSE "db"]
     /\ UNCHANGED <<now, upserted, immediates, inflight>>

readExpiringSoon(days) ==
  \E s \in getExpiringSoon(db, now, days) :
     /\ ret' = [op |-> "getExpiringSoon", args |-> <<days, now>>,
                threw |-> FALSE, result |-> s]
     /\ UNCHANGED <<db, now, upserted, immediates, inflight>>

readJot(id) ==
  /\ ret' = [op |-> "getJot", args |-> <<id>>, threw |-> FALSE,
             result |-> getJot(db, id)]
  /\ UNCHANGED <<db, now, upserted, immediates, inflight>>

(***************************************************************************)
(* JotService.detectContextName.  A text is the sequence of its pieces: a  *)
(* piece is "/", "\\", ".git", a line end "\n" or a run of other           *)
(* characters (no run holds one of the others or completes one).  What     *)
(* execSync and process.cwd() give is the environment env of a call:       *)
(* ExecThrows stands for a command that fails or a cwd that cannot be read.*)
(***************************************************************************)
ExecThrows == <<"<throws>">>

\* String.prototype.trim: the white space at both ends goes
RECURSIVE trim(_)
trim(s) ==
  IF s # <<>> /\ s[1] = "\n" THEN trim(Tail(s))
  ELSE IF s # <<>> /\ s[Len(s)] = "\n" THEN trim(SubSeq(s, 1, Len(s) - 1))
  ELSE s

\* s.split(sep).pop(): what follows the last separator, all of s if there is none
SplitPop(s, sep) ==
  LET at == {i \in DOMAIN s : s[i] = sep}
  IN IF at = {} THEN s
     ELSE SubSeq(s, (CHOOSE i \in at : \A k \in at : k <= i) + 1, Len(s))

\* s.replace(piece, ''): the first occurrence of piece goes, wherever it is
replaceFirst(s, piece) ==
  LET at == {i \in DOMAIN s : s[i] = piece}
  IN IF at = {} THEN s
     ELSE LET first == CHOOSE i \in at : \A k \in at : i <= k
          IN SubSeq(s, 1, first - 1) \o SubSeq(s, first + 1, Len(s))

\* the catch branch: the directory name, or 'general'
detectFromCwd(env) ==
  LET cwd == env.cwd
      dirName == IF SplitPop(cwd, "/") # <<>> THEN SplitPop(cwd, "/")
                 ELSE SplitPop(cwd, "\\")
  IN IF cwd # ExecThrows /\ dirName # <<>> /\ dirName # <<"/">> /\ dirName # <<"\\">>
     THEN dirName
     ELSE <<"general">>

detectContextName(env) ==
  LET repoUrl == trim(env.remote)
      popped == replaceFirst(SplitPop(repoUrl, "/"), ".git")
      repoName == IF popped # <<>> THEN popped ELSE <<"unknown">>
      branch == trim(env.branch)
  IN IF env.remote = ExecThrows \/ env.branch = ExecThrows THEN detectFromCwd(env)
     ELSE IF branch = <<"main">> \/ branch = <<"master">> THEN repoName
     ELSE repoName \o <<"/">> \o branch

(***************************************************************************)
(* JotService.createJot / updateJot.  A context name is a text as above    *)
(* (UndefinedName: not supplied); ttlDays is a record [type, days] whose   *)
(* type tells undefined, null and a number apart.                          *)
(***************************************************************************)
DEFAULT_TTL_DAYS == 14
MsPerDay == 24 * 60 * 60 * 1000

UndefinedName == <<UndefinedText>>
TtlUndefined == [type |-> "undefined", days |-> 0]
TtlNull == [type |-> "null", days |-> 0]
Days(n) == [type |-> "number", days |-> n]

\* faulty variant: only undefined is not a name
TruthyText_EmptyCounts(s) == s # UndefinedName

\* if (options.contextName): undefined and '' are falsy
TruthyText(s) == s # UndefinedName /\ s # <<>>

\* faulty variant: 0 days is a jot that expires at once
calculateExpiration_ZeroExpiresNow(t, ttlDays) ==
  IF ttlDays.type \in {"null", "undefined"} THEN t + DEFAULT_TTL_DAYS * MsPerDay
  ELSE t + ttlDays.days * MsPerDay

calculateExpiration(t, ttlDays) ==
  IF ttlDays.type \in {"null", "undefined"} THEN t + DEFAULT_TTL_DAYS * MsPerDay
  ELSE IF ttlDays.days = 0 THEN NULL
  ELSE t + ttlDays.days * MsPerDay

\* faulty variant: an id that matches nothing falls through to the name
resolveContext_FallsThrough(d, t, options, env) ==
  IF Truthy(options.contextId) /\ getContext(d, options.contextId) # NoContext
  THEN [db |-> d, threw |-> FALSE, result |-> getContext(d, options.contextId)]
  ELSE IF TruthyText(options.contextName)
  THEN upsertContextCall(d, t, options.contextName, UndefinedText)
  ELSE upsertContextCall(d, t, detectContextName(env), UndefinedText)

\* "Determine context": [db, threw, result] with the context in result
resolveContext(d, t, options, env) ==
  IF Truthy(options.contextId)
  THEN [db |-> d, threw |-> getContext(d, options.contextId) = NoContext,
        result |-> getContext(d, options.contextId)]
  ELSE IF TruthyText(options.contextName)
  THEN upsertContextCall(d, t, options.contextName, UndefinedText)
  ELSE upsertContextCall(d, t, detectContextName(env), UndefinedText)

JotService_createJotCall(d, t, options, env) ==
  LET context == resolveContext(d, t, options, env)
      expiresAt == calculateExpiration(t, options.ttlDays)
  IN IF context.threw THEN [db |-> context.db, threw |-> TRUE, result |-> NoJot]
     ELSE createJotCall(context.db, t, context.result.id, options.message,
                        expiresAt, options.tags, options.metadata)

\* updates.has: the keys of `updates` that are not undefined
JotService_updateJotCall(d, t, id, updates) ==
  updateJotCall(d, t, id,
    [has |-> (updates.has \ {"ttlDays"}) \cup
               (IF "ttlDays" \in updates.has THEN {"expiresAt"} ELSE {}),
     message |-> updates.message,
     expiresAt |-> calculateExpiration(t, updates.ttlDays),
     tags |-> updates.tags,
     metadata |-> updates.metadata])

JotService_createJot(options, env) ==
  LET r == JotService_createJotCall(db, now, options, env)
  IN /\ db.seq_jots < MaxJotId
     /\ r.db.seq_contexts <= MaxCtxId
     /\ db' = r.db
     /\ ret' = [op |-> "JotService.createJot", args |-> <<options, env>>,
                threw |-> r.threw, result |-> r.result]
     /\ UNCHANGED <<now, upserted, immediates, inflight>>

JotService_updateJot(id, updates) ==
  LET r == JotService_updateJotCall(db, now, id, updates)
  IN /\ db' = r.db
     /\ ret' = [op |-> "JotService.updateJot", args |-> <<id, updates>>,
                threw |-> r.threw, result |-> r.result]
     /\ UNCHANGED <<now, upserted, immediates, inflight>>

\* JotService.detectCurrentContext(): the detected name, nothing is written
detectCurrentContext(env) ==
  /\ ret' = [op |-> "detectCurrentContext", args |-> <<env>>, threw |-> FALSE,
             result |-> detectContextName(env)]
  /\ UNCHANGED <<db, now, upserted, immediates, inflight>>

(***************************************************************************)
(* Spec: the life of the store.  Every repository call, over argument sets *)
(* that make constraint failures, cascades and expirations happen.         *)
(***************************************************************************)
NoUpdates ==
  [has |-> {}, message |-> <<"auth">>, expiresAt |-> NULL, tags |-> <<>>,
   metadata |-> {}]

NoFilters ==
  [contextId |-> Undefined, query |-> <<>>, tags |-> <<>>, fromDate |-> Undefined,
   toDate |-> Undefined, includeExpired |-> FALSE, limit |-> Undefined]

(***************************************************************************)
(* ToolHandlers and the tool request handler of the server.  The arguments *)
(* of a tool call are a record whose field `has` holds the keys that are   *)
(* not undefined.  A date argument is given as what new Date(text).getTime()*)
(* makes of its text, a number or NaN.  A handler's outcome is             *)
(* [db, threw, error, text, jots, scheduled]: the store after it, whether  *)
(* it raised and with what message, the text it returned, the jots that    *)
(* text lists, and the number of callbacks it handed to setImmediate.      *)
(***************************************************************************)
NoListArgs ==
  [has |-> {}, context |-> <<>>, query |-> <<>>, tags |-> <<>>, fromDate |-> 0,
   toDate |-> 0, includeExpired |-> FALSE, limit |-> 0]

NoJotArgs ==
  [has |-> {}, operation |-> "create", id |-> 0, message |-> <<"auth">>,
   contextName |-> <<>>, ttlDays |-> Days(0), tags |-> <<>>, metadata |-> {}]

NoContextArgs == [has |-> {}, operation |-> "list", context |-> <<>>]

\* a text: its header, the number it names, its lines
Text(header, id, lines) == [header |-> header, id |-> id, lines |-> lines]

Outcome(d, text, jots, scheduled) ==
  [db |-> d, threw |-> FALSE, error |-> <<>>, text |-> text, jots |-> jots,
   scheduled |-> scheduled]

Raised(d, error, scheduled) ==
  [db |-> d, threw |-> TRUE, error |-> error, text |-> Text(<<>>, 0, <<>>),
   jots |-> <<>>, scheduled |-> scheduled]

\* formatJotEntry: message, context name when shown and known, tags, the day
\* of creation, 'Permanent'
formatJotEntry(d, jot, showContext) ==
  [message |-> jot.message,
   context |-> IF showContext /\ getContext(d, jot.contextId) # NoContext
               THEN getContext(d, jot.contextId).name ELSE <<>>,
   tags |-> jot.tags,
   created |-> jot.createdAt \div MsPerDay,
   permanent |-> jot.expiresAt = NULL]

\* formatJotList: the header, one entry per jot in order, the count
formatJotList(d, jots, header, showContext) ==
  Text(header, Len(jots), [i \in DOMAIN jots |-> formatJotEntry(d, jots[i], showContext)])

\* JotService.getContextJots(contextIdOrName, limit): the set of its outcomes,
\* [threw, jots]
getContextJots(d, t, name, limit) ==
  LET context == JotService_getContext(d, ByName(name))
  IN IF context = NoContext THEN {[threw |-> TRUE, jots |-> <<>>]}
     ELSE {[threw |-> FALSE, jots |-> s] :
             s \in searchJots(d, [NoFilters EXCEPT !.contextId = context.id,
                                                   !.limit = limit], t)}

\* args.limit as number
LimitOf(args) == IF "limit" \in args.has THEN args.limit ELSE Undefined

\* handleJotsList: all contexts, the named context, or the current one
handleJotsList(d, t, args, env) ==
  IF "context" \in args.has /\ args.context \in {<<"*">>, <<"all">>}
  THEN {Outcome(d, formatJotList(d, s, <<"All Contexts">>, TRUE), s, 0) :
          s \in searchJots(d, [NoFilters EXCEPT !.limit = LimitOf(args)], t)}
  ELSE IF "context" \in args.has /\ args.context # <<>>
  THEN {IF r.threw
        THEN Raised(d, <<"Context '">> \o args.context \o <<"' not found">>, 0)
        ELSE Outcome(d, formatJotList(d, r.jots, <<"Context: ">> \o args.context, FALSE),
                     r.jots, 0) :
          r \in getContextJots(d, t, args.context, LimitOf(args))}
  ELSE LET currentContext == detectContextName(env)
           listed == getContextJots(d, t, currentContext, LimitOf(args))
       IN IF \E r \in listed : r.threw
          THEN {Outcome(d, formatJotList(d, s, <<"No jots in: ">> \o currentContext, TRUE),
                        s, 0) :
                  s \in searchJots(d, [NoFilters EXCEPT !.limit = LimitOf(args)], t)}
          ELSE {Outcome(d, formatJotList(d, r.jots, <<"Context: ">> \o currentContext, FALSE),
                        r.jots, 0) : r \in listed}

\* the searchOptions handleJotsSearch builds
SearchOptionsOf(d, args) ==
  [contextId |-> IF "context" \in args.has /\ args.context # <<>>
                 THEN LET context == JotService_getContext(d, ByName(args.context))
                      IN IF context = NoContext THEN Undefined ELSE context.id
                 ELSE Undefined,
   query |-> IF "query" \in args.has THEN args.query ELSE <<>>,
   tags |-> IF "tags" \in args.has THEN args.tags ELSE <<>>,
   fromDate |-> IF "fromDate" \in args.has THEN args.fromDate ELSE Undefined,
   toDate |-> IF "toDate" \in args.has THEN args.toDate ELSE Undefined,
   includeExpired |-> "includeExpired" \in args.has /\ args.includeExpired,
   limit |-> LimitOf(args)]

\* formatSearchCriteria: the criteria that are shown
formatSearchCriteria(o) ==
  (IF o.query # <<>> THEN <<"query">> ELSE <<>>)
    \o (IF o.tags # <<>> THEN <<"tags">> ELSE <<>>)
    \o (IF Truthy(o.fromDate) THEN <<"from">> ELSE <<>>)
    \o (IF Truthy(o.toDate) THEN <<"to">> ELSE <<>>)

\* handleJotsSearch
handleJotsSearch(d, t, args) ==
  LET o == SearchOptionsOf(d, args)
  IN {IF s = <<>> THEN Outcome(d, Text(<<"No jots found.">>, 0, <<>>), s, 0)
      ELSE Outcome(d, formatJotList(d, s, <<"Search">> \o formatSearchCriteria(o), TRUE), s, 0) :
        s \in searchJots(d, o, t)}

\* args?.query || args?.tags || args?.fromDate || args?.toDate: an empty
\* query is falsy, an array and a date text are truthy
hasSearchFilters(args) ==
  \/ "query" \in args.has /\ args.query # <<>>
  \/ "tags" \in args.has
  \/ "fromDate" \in args.has
  \/ "toDate" \in args.has

\* faulty variant: no sweep is scheduled
handleListJots_NoSweep(d, t, args, env) ==
  IF hasSearchFilters(args) THEN handleJotsSearch(d, t, args)
  ELSE handleJotsList(d, t, args, env)

\* handleListJots: schedules cleanupExpired, then searches or lists
handleListJots(d, t, args, env) ==
  {[r EXCEPT !.scheduled = 1] :
     r \in IF hasSearchFilters(args) THEN handleJotsSearch(d, t, args)
           ELSE handleJotsList(d, t, args, env)}

\* jot.expiresAt ? `exp:${formatExpiryDate(jot.expiresAt)}` : 'permanent'
expiryInfo(jot) ==
  IF jot.expiresAt = NULL \/ jot.expiresAt = 0 THEN <<"permanent">> ELSE <<"exp:">>

\* handleJotCreate
handleJotCreate(d, t, args, env) ==
  LET options ==
        [contextId |-> Undefined,
         contextName |-> IF "contextName" \in args.has THEN args.contextName
                         ELSE UndefinedName,
         ttlDays |-> IF "ttlDays" \in args.has THEN args.ttlDays ELSE TtlUndefined,
         message |-> args.message,
         tags |-> IF "tags" \in args.has THEN args.tags ELSE <<>>,
         metadata |-> IF "metadata" \in args.has THEN args.metadata ELSE {}]
      r == JotService_createJotCall(d, t, options, env)
  IN IF r.threw THEN {Raised(r.db, <<"SqliteError">>, 0)}
     ELSE {Outcome(r.db,
                   Text(<<"Jotted to: ">> \o getContext(r.db, r.result.contextId).name
                          \o expiryInfo(r.result),
                        r.result.id, <<>>),
                   <<r.result>>, 0)}

\* handleJotUpdate; args.id is what parseInt makes of it, a number or NaN
handleJotUpdate(d, t, args) ==
  LET updates ==
        [has |-> args.has \cap {"message", "ttlDays", "tags", "metadata"},
         message |-> args.message, ttlDays |-> args.ttlDays, tags |-> args.tags,
         metadata |-> args.metadata]
      r == JotService_updateJotCall(d, t, args.id, updates)
  IN IF r.threw THEN {Raised(r.db, <<"SqliteError">>, 0)}
     ELSE IF r.result = NoJot
     THEN {Outcome(r.db, Text(<<"Jot not found: ">>, args.id, <<>>), <<>>, 0)}
     ELSE {Outcome(r.db,
                   Text(<<"Updated jot">> \o expiryInfo(r.result), args.id, <<>>),
                   <<r.result>>, 0)}

\* handleJotDelete
handleJotDelete(d, args) ==
  LET r == deleteJotCall(d, args.id)
  IN {Outcome(r.db,
              Text(IF r.result THEN <<"Deleted jot: ">> ELSE <<"Jot not found: ">>,
                   args.id, <<>>),
              <<>>, 0)}

\* handleJot: switch (operation)
handleJot(d, t, args, env) ==
  IF args.operation = "create" THEN handleJotCreate(d, t, args, env)
  ELSE IF args.operation = "update" THEN handleJotUpdate(d, t, args)
  ELSE IF args.operation = "delete" THEN handleJotDelete(d, args)
  ELSE {Raised(d, <<"Unknown operation: ", args.operation>>, 0)}

\* formatContextList: one entry per context in order, the current one
\* marked (the date of the entry is left out)
formatContextList(contexts, currentContextName) ==
  Text(IF contexts = <<>> THEN <<"No contexts found yet.">> ELSE <<"Your Contexts">>,
       Len(contexts),
       [i \in DOMAIN contexts |->
          [name |-> contexts[i].name,
           current |-> contexts[i].name = currentContextName,
           jotCount |-> contexts[i].jotCount]])

\* handleContextList: schedules cleanupExpired, then lists
handleContextList(d, env) ==
  {Outcome(d, formatContextList(s, detectContextName(env)), <<>>, 1) :
     s \in listContexts(d)}

\* handleContextDelete
handleContextDelete(d, args) ==
  LET r == JotService_deleteContextCall(d, ByName(args.context))
  IN {Outcome(r.db,
              Text((IF r.result THEN <<"Deleted context: ">>
                    ELSE <<"Context not found: ">>) \o args.context, 0, <<>>),
              <<>>, 0)}

\* handleContext: switch (operation)
handleContext(d, args, env) ==
  IF args.operation = "list" THEN handleContextList(d, env)
  ELSE IF args.operation = "delete" THEN handleContextDelete(d, args)
  ELSE {Raised(d, <<"Unknown operation: ", args.operation>>, 0)}

\* the tool request handler: switch (name) inside try, the catch makes the
\* error response
CallToolOutcomes(d, t, name, args, env) ==
  IF name = "jot" THEN handleJot(d, t, args, env)
  ELSE IF name = "list_jots" THEN handleListJots(d, t, args, env)
  ELSE IF name = "context" THEN handleContext(d, args, env)
  ELSE {Raised(d, <<"Unknown tool: ", name>>, 0)}

\* faulty variant: the catch returns the message without isError
CallToolResponse_NoErrorFlag(r) ==
  IF r.threw
  THEN [isError |-> FALSE, text |-> Text(<<"Error: ">> \o r.error, 0, <<>>), jots |-> <<>>]
  ELSE [isError |-> FALSE, text |-> r.text, jots |-> r.jots]

CallToolResponse(r) ==
  IF r.threw
  THEN [isError |-> TRUE, text |-> Text(<<"Error: ">> \o r.error, 0, <<>>), jots |-> <<>>]
  ELSE [isError |-> FALSE, text |-> r.text, jots |-> r.jots]

\* a tools/call request, from its arrival to its response
callTool(name, args, env) ==
  \E r \in CallToolOutcomes(db, now, name, args, env) :
     /\ (name = "jot" /\ args.operation = "create") =>
          db.seq_jots < MaxJotId /\ r.db.seq_contexts <= MaxCtxId
     /\ immediates + r.scheduled <= MaxImmediates
     /\ db' = r.db
     /\ ret' = [op |-> "callTool", args |-> <<name, args, env, now>>,
                threw |-> FALSE, result |-> CallToolResponse(r)]
     /\ immediates' = immediates + r.scheduled
     /\ UNCHANGED <<now, upserted, inflight>>

\* a callback handed to setImmediate runs: () => this.service.cleanupExpired()
runImmediate ==
  LET r == deleteExpiredJotsCall(db, now)
  IN /\ immediates > 0
     /\ db' = r.db
     /\ ret' = [op |-> "cleanupExpired", args |-> <<now>>,
                threw |-> r.threw, result |-> r.result, removed |-> r.removed]
     /\ immediates' = immediates - 1
     /\ UNCHANGED <<now, upserted, inflight>>

UpsertArgsSpec == {<<"proj", "r1">>, <<"proj", "r2">>, <<"docs", UndefinedText>>}
ExpiresArgsSpec == {NULL, 1}
TagArgsSpec == {<<"bug">>, <<"bug", "bug">>}
MetaArgsSpec == {{<<"k", "v">>}}
UpdateArgsSpec ==
  {[NoUpdates EXCEPT !.has = {"tags", "metadata"}, !.tags = <<"urgent", "urgent">>],
   [NoUpdates EXCEPT !.has = {"tags", "metadata"}, !.tags = <<"urgent">>]}

Next ==
  \/ \E a \in UpsertArgsSpec : upsertContext(a[1], a[2])
  \/ \E c \in CtxIdArgs : deleteContext(c)
  \/ \E c \in CtxIdArgs, e \in ExpiresArgsSpec, t \in TagArgsSpec, md \in MetaArgsSpec :
        createJot(c, <<"auth">>, e, t, md)
  \/ \E j \in JotIdArgs, u \in UpdateArgsSpec : updateJot(j, u)
  \/ \E j \in JotIdArgs : deleteJot(j)
  \/ deleteExpiredJots

Spec == Init /\ [][Next]_vars

(***************************************************************************)
(* SpecExpiry: one context, jots that expire before, at and after the      *)
(* clock, the sweep and searches, while the clock advances.                *)
(***************************************************************************)
ExpiresArgsExpiry == {NULL, 1, 2, 3}
TagArgsExpiry == {<<>>, <<"bug">>}
UpdateArgsExpiry == {[NoUpdates EXCEPT !.has = {"expiresAt"}, !.expiresAt = 1]}
SearchArgsExpiry ==
  {[NoFilters EXCEPT !.includeExpired = e, !.tags = t, !.limit = l] :
     e \in BOOLEAN, t \in {<<>>, <<"bug">>}, l \in {Undefined, 1}}

NextExpiry ==
  \/ Tick
  \/ upsertContext("proj", UndefinedText)
  \/ \E e \in ExpiresArgsExpiry, t \in TagArgsExpiry : createJot(1, <<"auth">>, e, t, {})
  \/ \E j \in JotIdArgs, u \in UpdateArgsExpiry : updateJot(j, u)
  \/ deleteExpiredJots
  \/ \E o \in SearchArgsExpiry : search(o)

SpecExpiry == Init /\ [][NextExpiry]_vars

(***************************************************************************)
(* SpecUpdate: one context, jots created alike, and jot 1 updated with     *)
(* every subset of {message, expiresAt, tags, metadata}, while the clock   *)
(* advances.                                                               *)
(***************************************************************************)
UpdateKeys == {"message", "expiresAt", "tags", "metadata"}
NewValues ==
  [has |-> {}, message |-> <<"fix">>, expiresAt |-> 2, tags |-> <<"urgent">>,
   metadata |-> {<<"k", "w">>}]
UpdateArgsUpdate ==
  {[NewValues EXCEPT !.has = h] : h \in SUBSET UpdateKeys}
    \cup {[NewValues EXCEPT !.has = h \cup {"tags"}, !.tags = <<"bug", "bug", "urgent">>] :
            h \in SUBSET {"message", "metadata"}}

NextUpdate ==
  \/ Tick
  \/ upsertContext("proj", UndefinedText)
  \/ createJot(1, <<"auth">>, NULL, <<"bug">>, {<<"k", "v">>})
  \/ \E u \in UpdateArgsUpdate : updateJot(1, u)

SpecUpdate == Init /\ [][NextUpdate]_vars

(***************************************************************************)
(* SpecAbsence: every call that addresses a context or a jot, with ids and *)
(* names that match a row and with ones that match none.                   *)
(***************************************************************************)
ContextArgsAbsence == {ById(c) : c \in CtxIdArgs} \cup {ByName(n) : n \in Names}
UpdateArgsAbsence ==
  {[NoUpdates EXCEPT !.has = {"message"}, !.message = <<"fix">>],
   [NoUpdates EXCEPT !.has = {"tags"}, !.tags = <<"urgent">>]}

NextAbsence ==
  \/ \E n \in Names : upsertContext(n, UndefinedText)
  \/ \E c \in CtxIdArgs : createJot(c, <<"auth">>, NULL, <<"bug">>, {})
  \/ \E j \in JotIdArgs, u \in UpdateArgsAbsence : updateJot(j, u)
  \/ \E j \in JotIdArgs : deleteJot(j)
  \/ \E c \in CtxIdArgs : deleteContext(c)
  \/ \E x \in ContextArgsAbsence : JotService_deleteContext(x)
  \/ \E x \in ContextArgsAbsence : readContext(x)
  \/ \E j \in JotIdArgs : readJot(j)

SpecAbsence == Init /\ [][NextAbsence]_vars

(***************************************************************************)
(* SpecSearch: two contexts, jots that differ in context, message, tags,   *)
(* expiration and creation time, and searches with every filter, alone and *)
(* combined, with well-formed and with degenerate values.                  *)
(***************************************************************************)
JotArgsSearch ==
  {<<1, <<"auth", "fix">>, NULL, <<"bug", "urgent">>>>,
   <<2, <<"auth">>, 1, <<"bug">>>>,
   <<1, <<"fix">>, NULL, <<>>>>}
SearchArgsSearch ==
  {NoFilters,
   [NoFilters EXCEPT !.includeExpired = TRUE],
   [NoFilters EXCEPT !.contextId = 1],
   [NoFilters EXCEPT !.contextId = 0, !.includeExpired = TRUE],
   [NoFilters EXCEPT !.query = <<"fix">>],
   [NoFilters EXCEPT !.tags = <<"urgent">>],
   [NoFilters EXCEPT !.tags = <<"bug", "urgent">>, !.includeExpired = TRUE],
   [NoFilters EXCEPT !.tags = <<"bug", "urgent">>, !.includeExpired = TRUE, !.limit = 1],
   [NoFilters EXCEPT !.tags = <<"bug", "urgent">>, !.includeExpired = TRUE, !.limit = 2],
   [NoFilters EXCEPT !.fromDate = 2, !.includeExpired = TRUE],
   [NoFilters EXCEPT !.toDate = 1, !.includeExpired = TRUE],
   [NoFilters EXCEPT !.toDate = 0, !.includeExpired = TRUE],
   [NoFilters EXCEPT !.fromDate = NaN, !.includeExpired = TRUE],
   [NoFilters EXCEPT !.toDate = NaN, !.includeExpired = TRUE],
   [NoFilters EXCEPT !.limit = -1, !.includeExpired = TRUE],
   [NoFilters EXCEPT !.limit = 0, !.includeExpired = TRUE],
   [NoFilters EXCEPT !.contextId = 1, !.query = <<"auth">>, !.tags = <<"bug">>,
                     !.fromDate = 1, !.toDate = 2]}

NextSearch ==
  \/ Tick
  \/ \E n \in Names : upsertContext(n, UndefinedText)
  \/ \E a \in JotArgsSearch : createJot(a[1], a[2], a[3], a[4], {})
  \/ \E o \in SearchArgsSearch : search(o)

SpecSearch == Init /\ [][NextSearch]_vars

(***************************************************************************)
(* SpecIndex: every call that writes the jots table, so that each trigger  *)
(* of the full-text index fires, and searches by a word.                   *)
(***************************************************************************)
UpdateArgsIndex ==
  {[NoUpdates EXCEPT !.has = {"message"}, !.message = <<"fix">>],
   [NoUpdates EXCEPT !.has = {"message"}, !.message = <<"auth">>],
   [NoUpdates EXCEPT !.has = {"expiresAt"}, !.expiresAt = 1]}
SearchArgsIndex ==
  {[NoFilters EXCEPT !.query = <<w>>, !.includeExpired = TRUE] : w \in {"auth", "fix"}}

NextIndex ==
  \/ \E n \in Names : upsertContext(n, UndefinedText)
  \/ \E c \in CtxIdArgs : createJot(c, <<"auth">>, NULL, <<>>, {})
  \/ \E j \in JotIdArgs, u \in UpdateArgsIndex : updateJot(j, u)
  \/ \E j \in JotIdArgs : deleteJot(j)
  \/ deleteExpiredJots
  \/ \E c \in CtxIdArgs : deleteContext(c)
  \/ \E o \in SearchArgsIndex : search(o)

SpecIndex == Init /\ [][NextIndex]_vars

(***************************************************************************)
(* SpecDetect: context detection over the environments a call can find:    *)
(* remote URLs of the usual forms, branches, POSIX and Windows working     *)
(* directories, and each command failing.                                  *)
(***************************************************************************)
RemoteArgs ==
  {ExecThrows,
   <<"https:", "/", "/", "github.com", "/", "me", "/", "jot", ".git", "\n">>,
   <<"https:", "/", "/", "github.com", "/", "me", "/", "jot", "\n">>,
   <<"git@github.com:me", "/", "jot", ".git", "\n">>,
   <<"https:", "/", "/", "github.com", "/", "me", "/", "me", ".git", "hub.io", ".git", "\n">>,
   <<"https:", "/", "/", "github.com", "/", "me", "/", "me", ".git", "hub.io", "\n">>,
   <<"jot", ".git", "\n">>}
BranchArgs ==
  {ExecThrows, <<"main", "\n">>, <<"master", "\n">>, <<"dev", "\n">>,
   <<"feature", "/", "x", "\n">>, <<"HEAD", "\n">>}
CwdArgs ==
  {ExecThrows, <<"/", "home", "/", "jot">>, <<"/">>, <<"C:", "\\", "work", "\\", "jot">>,
   <<"C:", "\\">>}
EnvArgs == [remote : RemoteArgs, branch : BranchArgs, cwd : CwdArgs]

NextDetect == \E env \in EnvArgs : detectCurrentContext(env)

SpecDetect == Init /\ [][NextDetect]_vars

(***************************************************************************)
(* SpecService: jots created and updated through the service, with the     *)
(* context given by id, by name, by an empty name or not at all, and with  *)
(* every kind of ttlDays, while the clock advances.                        *)
(***************************************************************************)
NoOptions ==
  [contextId |-> Undefined, contextName |-> UndefinedName, ttlDays |-> TtlUndefined,
   message |-> <<"auth">>, tags |-> <<"bug">>, metadata |-> {}]
TtlArgs == {TtlNull, Days(0), Days(1), Days(-1)}
OptionsArgsService ==
  {[NoOptions EXCEPT !.contextId = c, !.contextName = n] :
     c \in {Undefined, 0, 1, 2}, n \in {UndefinedName, <<>>, <<"proj">>}}
    \cup {[NoOptions EXCEPT !.ttlDays = d] : d \in TtlArgs}
EnvArgsService ==
  {[remote |-> <<"git@github.com:me", "/", "jot", ".git", "\n">>,
    branch |-> <<"main", "\n">>, cwd |-> <<"/", "home", "/", "jot">>],
   [remote |-> ExecThrows, branch |-> ExecThrows, cwd |-> <<"/">>]}
UpdateArgsService ==
  {[has |-> {"ttlDays"}, message |-> <<"auth">>, ttlDays |-> d, tags |-> <<>>,
    metadata |-> {}] : d \in TtlArgs}

NextService ==
  \/ Tick
  \/ \E o \in OptionsArgsService, env \in EnvArgsService : JotService_createJot(o, env)
  \/ \E u \in UpdateArgsService : JotService_updateJot(1, u)

SpecService == Init /\ [][NextService]_vars

(***************************************************************************)
(* SpecContexts: contexts that are created, receive jots, lose them to     *)
(* deletes and sweeps, and are read one by one and as a list, while the    *)
(* clock advances.                                                         *)
(***************************************************************************)
ContextArgsContexts == {ById(1), ByName("docs")}
UpdateArgsContexts == {[NoUpdates EXCEPT !.has = {"tags"}, !.tags = <<"urgent">>]}

NextContexts ==
  \/ Tick
  \/ \E n \in Names : upsertContext(n, UndefinedText)
  \/ \E c \in CtxIdArgs, t \in {<<>>, <<"bug", "bug">>} : createJot(c, <<"auth">>, 1, t, {})
  \/ \E j \in JotIdArgs, u \in UpdateArgsContexts : updateJot(j, u)
  \/ \E j \in JotIdArgs : deleteJot(j)
  \/ deleteExpiredJots
  \/ readContexts
  \/ \E x \in ContextArgsContexts : readContext(x)

SpecContexts == Init /\ [][NextContexts]_vars

(***************************************************************************)
(* The order of listContexts: contexts and jots created and updated at     *)
(* three different times and more, nothing deleted.                        *)
(***************************************************************************)
InitOrder ==
  /\ db = EmptyDb
  /\ now = 0
  /\ ret = NoReturn
  /\ upserted = [n \in Names |-> 0]
  /\ immediates = 0
  /\ inflight = [p \in Procs |-> Idle]

NextOrder ==
  \/ Tick
  \/ \E n \in Names : upsertContext(n, UndefinedText)
  \/ \E c \in CtxIdArgs, t \in {<<>>, <<"bug", "bug">>} : createJot(c, <<"auth">>, NULL, t, {})
  \/ \E j \in JotIdArgs, u \in UpdateArgsContexts : updateJot(j, u)
  \/ readContexts

SpecOrder == InitOrder /\ [][NextOrder]_vars

(***************************************************************************)
(* Jots about to expire: one context, jots that are permanent, expire at   *)
(* the first times of the clock, or a day and a millisecond or two after   *)
(* time 0, and windows of no, one, two and three days and of minus one day.*)
(***************************************************************************)
ExpiresArgsSoon ==
  {NULL, 1, 2, 24 * 60 * 60 * 1000 + 1, 24 * 60 * 60 * 1000 + 2, 2 * 24 * 60 * 60 * 1000 + 1}
DaysArgsSoon == {-1, 0, 1, 2, 3}
UpdateArgsSoon ==
  {[NoUpdates EXCEPT !.has = {"expiresAt"}, !.expiresAt = e] : e \in {NULL, 2}}

NextSoon ==
  \/ Tick
  \/ upsertContext("proj", UndefinedText)
  \/ \E e \in ExpiresArgsSoon : createJot(1, <<"auth">>, e, <<>>, {})
  \/ \E j \in JotIdArgs, u \in UpdateArgsSoon : updateJot(j, u)
  \/ \E j \in JotIdArgs : deleteJot(j)
  \/ \E n \in DaysArgsSoon : readExpiringSoon(n)

SpecSoon == Init /\ [][NextSoon]_vars

(***************************************************************************)
(* Initialization again: a store with contexts, jots, tags and metadata,   *)
(* some of them deleted again, initialized at any moment.                  *)
(***************************************************************************)
NextInit ==
  \/ Tick
  \/ \E n \in Names : upsertContext(n, UndefinedText)
  \/ \E t \in {<<>>, <<"bug">>}, m \in {{}, {<<"k", "v">>}} :
        createJot(1, <<"auth">>, NULL, t, m)
  \/ \E j \in JotIdArgs : deleteJot(j)
  \/ \E c \in CtxIdArgs : deleteContext(c)
  \/ initializeDatabase

SpecInit == Init /\ [][NextInit]_vars

(***************************************************************************)
(* The list_jots tool: jots jotted into two contexts through the jot tool, *)
(* permanent ones and ones already expired, listed and searched with and   *)
(* without a context, a query, a tag and includeExpired, while scheduled   *)
(* sweeps run in between.                                                  *)
(***************************************************************************)
EnvTools == [remote |-> ExecThrows, branch |-> ExecThrows, cwd |-> <<"/", "home", "/", "proj">>]

JotArgsTools ==
  {[NoJotArgs EXCEPT !.has = {"operation", "message", "contextName", "ttlDays", "tags"},
                     !.contextName = n, !.ttlDays = d, !.tags = <<"bug">>] :
     n \in {<<"proj">>, <<"docs">>}, d \in {Days(0), Days(-1)}}

ListArgsTools ==
  {[NoListArgs EXCEPT !.has = c[1] \cup f[1] \cup e, !.context = c[2], !.query = f[2],
                      !.tags = f[3], !.includeExpired = TRUE] :
     c \in {<<{}, <<>>>>, <<{"context"}, <<"proj">>>>, <<{"context"}, <<"nope">>>>,
            <<{"context"}, <<"*">>>>},
     f \in {<<{}, <<>>, <<>>>>, <<{"query"}, <<"auth">>, <<>>>>, <<{"tags"}, <<>>, <<"bug">>>>},
     e \in {{}, {"includeExpired"}}}

NextTools ==
  \/ \E a \in JotArgsTools : callTool("jot", a, EnvTools)
  \/ \E a \in ListArgsTools : callTool("list_jots", a, EnvTools)
  \/ runImmediate

SpecTools == Init /\ [][NextTools]_vars

(***************************************************************************)
(* Requests that fail: a tool that does not exist, operations the jot and  *)
(* context tools do not have, a create whose duplicate tags make the store *)
(* raise, a list of a context that does not exist; among requests that     *)
(* succeed.                                                                *)
(***************************************************************************)
ToolNamesFaults == {"jot", "list_jots", "context", "frobnicate"}

JotArgsFaults ==
  {[NoJotArgs EXCEPT !.has = {"operation", "message", "contextName", "tags"},
                     !.operation = o, !.contextName = <<"proj">>, !.tags = t] :
     o \in {"create", "rename"}, t \in {<<"bug">>, <<"bug", "bug">>}}

ListArgsFaults ==
  {[NoListArgs EXCEPT !.has = {"context"}, !.context = c] : c \in {<<"proj">>, <<"nope">>}}

ContextArgsFaults ==
  {[NoContextArgs EXCEPT !.has = {"operation", "context"}, !.operation = o,
                         !.context = <<"proj">>] : o \in {"list", "delete", "purge"}}

ArgsFaults(name) ==
  IF name = "jot" THEN JotArgsFaults
  ELSE IF name = "list_jots" THEN ListArgsFaults
  ELSE IF name = "context" THEN ContextArgsFaults
  ELSE {[NoContextArgs EXCEPT !.has = {}]}

NextFaults ==
  \/ Tick
  \/ \E name \in ToolNamesFaults : \E a \in ArgsFaults(name) : callTool(name, a, EnvTools)
  \/ runImmediate

SpecFaults == Init /\ [][NextFaults]_vars

(***************************************************************************)
(* The lifetime of a jot and of its id: a context that is created, deleted *)
(* and created again, jots with tags and metadata that never expire, are   *)
(* expired at once or expire after the last clock value, updates of the    *)
(* expiration, reads by id, deletes, the sweep and the default search,     *)
(* while the clock advances.                                               *)
(***************************************************************************)
ExpiresArgsLifetime == {NULL, 1, MaxTime + 1}
UpdateArgsLifetime ==
  {[NoUpdates EXCEPT !.has = {"expiresAt"}, !.expiresAt = e] : e \in {NULL, MaxTime + 1}}

NextLifetime ==
  \/ Tick
  \/ upsertContext("proj", UndefinedText)
  \/ \E c \in CtxIdArgs : deleteContext(c)
  \/ \E c \in CtxIdArgs, e \in ExpiresArgsLifetime :
        createJot(c, <<"auth">>, e, <<"bug">>, {<<"k", "v">>})
  \/ \E j \in JotIdArgs, u \in UpdateArgsLifetime : updateJot(j, u)
  \/ \E j \in JotIdArgs : readJot(j)
  \/ \E j \in JotIdArgs : deleteJot(j)
  \/ deleteExpiredJots
  \/ search(NoFilters)

SpecLifetime == Init /\ [][NextLifetime]_vars

(***************************************************************************)
(* upsertContext statement by statement, for server processes that share   *)
(* one store file: each prepared statement is a transaction of its own, so *)
(* another process may write between the SELECT of getContextByName, the   *)
(* INSERT and the SELECT of getContext.  inflight[p] is where the call of  *)
(* process p stands.                                                       *)
(***************************************************************************)
Returned(name, threw, result) ==
  [pc |-> "returned", name |-> name, threw |-> threw, result |-> result]

\* const existing = this.getContextByName(name); if (existing) return existing
upsertLookup(p, name, repository) ==
  LET existing == getContextByName(db, name)
  IN /\ inflight[p] = Idle
     /\ existing # NoContext \/ db.seq_contexts < MaxCtxId
     /\ inflight' = [inflight EXCEPT ![p] =
                       IF existing # NoContext THEN Returned(name, FALSE, existing)
                       ELSE [pc |-> "insert", name |-> name, repository |-> repository]]
     /\ UNCHANGED <<db, now, ret, upserted, immediates>>

\* INSERT INTO contexts ...: throws when the name is taken by now
upsertInsert(p) ==
  LET c == inflight[p]
      r == InsertContext(db, c.name, c.repository, now)
  IN /\ c.pc = "insert"
     /\ db' = r.db
     /\ inflight' = [inflight EXCEPT ![p] =
                       IF r.ok THEN [pc |-> "readback", name |-> c.name,
                                     lastInsertRowid |-> r.lastInsertRowid]
                       ELSE Returned(c.name, TRUE, NoContext)]
     /\ UNCHANGED <<now, ret, upserted, immediates>>

\* return this.getContext(result.lastInsertRowid)!
upsertReadBack(p) ==
  LET c == inflight[p]
  IN /\ c.pc = "readback"
     /\ inflight' = [inflight EXCEPT ![p] =
                       Returned(c.name, FALSE, getContext(db, c.lastInsertRowid))]
     /\ UNCHANGED <<db, now, ret, upserted, immediates>>

\* the caller has the outcome; the process is free for its next request
upsertReturn(p) ==
  LET c == inflight[p]
  IN /\ c.pc = "returned"
     /\ ret' = [op |-> "upsertContext", args |-> <<c.name, p>>,
                threw |-> c.threw, result |-> c.result]
     /\ upserted' = IF c.threw THEN upserted ELSE [upserted EXCEPT ![c.name] = c.result.id]
     /\ inflight' = [inflight EXCEPT ![p] = Idle]
     /\ UNCHANGED <<db, now, immediates>>

NextRace ==
  \/ Tick
  \/ \E p \in Procs, n \in Names, r \in {UndefinedText, "repo"} : upsertLookup(p, n, r)
  \/ \E p \in Procs : upsertInsert(p)
  \/ \E p \in Procs : upsertReadBack(p)
  \/ \E p \in Procs : upsertReturn(p)

SpecRace == Init /\ [][NextRace]_vars

(***************************************************************************)
(* Sweeps in a row: jots that leave the store by a sweep only.             *)
(***************************************************************************)
NextRepeat ==
  \/ Tick
  \/ upsertContext("proj", UndefinedText)
  \/ \E e \in ExpiresArgsExpiry : createJot(1, <<"auth">>, e, <<"bug">>, {<<"k", "v">>})
  \/ deleteExpiredJots

SpecRepeat == Init /\ [][NextRepeat]_vars

(***************************************************************************)
(* The opportunistic sweep: jots that are expired or permanent, list_jots  *)
(* and context list requests that schedule the sweep, updates that arrive  *)
(* before the scheduled sweep runs, and the clock.  The event loop runs    *)
(* every callback handed to setImmediate: weak fairness of runImmediate.   *)
(***************************************************************************)
JotArgsSweep ==
  {[NoJotArgs EXCEPT !.has = {"operation", "message", "contextName", "ttlDays"},
                     !.contextName = <<"proj">>, !.ttlDays = d] :
     d \in {Days(0), Days(-1)}}
    \cup {[NoJotArgs EXCEPT !.has = {"operation", "id", "ttlDays"}, !.operation = "update",
                            !.id = j, !.ttlDays = Days(0)] : j \in JotIdArgs}

ListArgsSweep ==
  {[NoListArgs EXCEPT !.has = {"context"}, !.context = <<"*">>],
   [NoListArgs EXCEPT !.has = {"context", "query", "includeExpired"}, !.context = <<"*">>,
                      !.query = <<"auth">>, !.includeExpired = TRUE]}

NextSweep ==
  \/ Tick
  \/ \E a \in JotArgsSweep : callTool("jot", a, EnvTools)
  \/ \E a \in ListArgsSweep : callTool("list_jots", a, EnvTools)
  \/ callTool("context", [NoContextArgs EXCEPT !.has = {"operation"}], EnvTools)
  \/ runImmediate

SpecSweep == Init /\ [][NextSweep]_vars /\ WF_vars(runImmediate)

(***************************************************************************)
(* Properties.                                                             *)
(***************************************************************************)

\* the step is a call of `op`: ret' describes it (the clock stands still
\* during a call, and only a call writes ret)
StepOf(op) == ret'.op = op /\ now' = now

HasDuplicates(s) == \E i, k \in DOMAIN s : i # k /\ s[i] = s[k]

\* C1: createJot is all-or-nothing: after the call either the jot row, all its
\* tag rows, all its metadata rows and the context's timestamp bump are
\* present, or the store is exactly as it was before the call.
C1_CreateJotAllOrNothing ==
  [][StepOf("createJot") =>
       LET a == ret'.args
           j == getJot(db', db.seq_jots + 1)
       IN \/ db' = db
          \/ /\ j # NoJot
             /\ j.contextId = a[1] /\ j.message = a[2] /\ j.expiresAt = a[3]
             /\ j.tags = Range(a[4])
             /\ j.metadata = a[5]
             /\ getContext(db', a[1]).updatedAt = now]_vars

\* C2: updateJot is atomic per call: an update of which a step fails leaves
\* the jot, its tags, its metadata and the context exactly as before the call.
C2_UpdateJotAtomic ==
  [][StepOf("updateJot") /\ ret'.threw => db' = db]_vars

\* C3: createJot, and updateJot with tags, given a tag list that contains a
\* tag more than once succeeds and stores the set of distinct tags.
C3_DuplicateTagsCollapse ==
  [][/\ (/\ StepOf("createJot")
         /\ getContext(db, ret'.args[1]) # NoContext
         /\ HasDuplicates(ret'.args[4]))
          => (~ret'.threw /\ ret'.result.tags = Range(ret'.args[4]))
     /\ (/\ StepOf("updateJot")
         /\ getJot(db, ret'.args[1]) # NoJot
         /\ "tags" \in ret'.args[2].has
         /\ HasDuplicates(ret'.args[2].tags))
          => (~ret'.threw /\ ret'.result.tags = Range(ret'.args[2].tags))]_vars

\* C4: cascade delete: after deleteContext(c) returns true the store holds no
\* context c, no jot of c, and no tag, metadata or index entry of such a jot;
\* getJot of each is absent; the jots of other contexts are untouched.
C4_CascadeDelete ==
  [][StepOf("deleteContext") /\ ret'.result =>
       LET c == ret'.args[1]
           owned == {j.id : j \in {x \in db.jots : x.context_id = c}}
           others == {j.id : j \in db.jots} \ owned
       IN /\ getContext(db', c) = NoContext
          /\ \A j \in db'.jots : j.context_id # c
          /\ \A i \in owned :
               /\ getJot(db', i) = NoJot
               /\ \A r \in db'.tags : r.jot_id # i
               /\ \A r \in db'.metadata : r.jot_id # i
               /\ \A e \in db'.jots_fts : e.rowid # i
          /\ \A i \in others :
               /\ getJot(db', i) = getJot(db, i)
               /\ {e \in db'.jots_fts : e.rowid = i} = {e \in db.jots_fts : e.rowid = i}
          /\ db'.contexts = {x \in db.contexts : x.id # c}]_vars

\* a context was deleted, a jot is gone and a jot of another context is left
C4_Witness ==
  /\ ret.op = "deleteContext" /\ ret.result
  /\ db.seq_jots = 2
  /\ \E j \in db.jots : j.id = 2 /\ j.context_id # ret.args[1]
  /\ getJot(db, 1) = NoJot

\* C5: referential integrity in every reachable state: every jot's context
\* exists, every tag row and every metadata row belongs to an existing jot.
C5_ReferentialIntegrity ==
  /\ \A j \in db.jots : \E c \in db.contexts : c.id = j.context_id
  /\ \A r \in db.tags : \E j \in db.jots : j.id = r.jot_id
  /\ \A r \in db.metadata : \E j \in db.jots : j.id = r.jot_id

\* a call raised, and rows of all tables are stored
C5_Witness ==
  /\ ret.op \in {"createJot", "updateJot"} /\ ret.threw
  /\ db.jots # {} /\ db.tags # {} /\ db.metadata # {}
  /\ db.seq_contexts > Cardinality(db.contexts)

\* C6: context names are unique in every reachable state.
C6_NamesUnique ==
  \A c1 \in db.contexts, c2 \in db.contexts : c1.name = c2.name => c1 = c2

\* upsertContext was called with the name of an existing context, and two
\* contexts are stored
C6_Witness ==
  /\ ret.op = "upsertContext" /\ ~ret.threw
  /\ ret.args = <<"proj", "r1">> /\ ret.result.repository = "r2"
  /\ Cardinality(db.contexts) = 2

SatisfiesOtherFilters(j, o) ==
  /\ o.contextId # Undefined => j.contextId = o.contextId
  /\ o.query # <<>> => Range(o.query) \subseteq Range(j.message)
  /\ o.tags # <<>> => j.tags \cap Range(o.tags) # {}
  /\ o.fromDate # Undefined => j.createdAt >= o.fromDate
  /\ o.toDate # Undefined => j.createdAt <= o.toDate

StoredJots(d) == {mapJot(d, row) : row \in d.jots}

\* C8: default expiration exclusion: searchJots without includeExpired never
\* returns a jot whose expiresAt is non-null and has passed at the query time;
\* with includeExpired it filters nothing on expiration: it returns the stored
\* jots that satisfy the other filters, expired or not (all of them, or the
\* first `limit` of them).
C8_DefaultExpirationExclusion ==
  ret.op = "searchJots" =>
    LET o == ret.args[1]
        t == ret.args[2]
        res == ret.result
        others == {j \in StoredJots(db) : SatisfiesOtherFilters(j, o)}
    IN /\ ~o.includeExpired =>
            \A i \in DOMAIN res : res[i].expiresAt = NULL \/ res[i].expiresAt > t
       /\ o.includeExpired =>
            /\ Range(res) \subseteq others
            /\ Len(res) = IF o.limit > 0 /\ o.limit < Cardinality(others)
                          THEN o.limit ELSE Cardinality(others)

\* a default search over a store that holds an expired jot and a live one
C8_Witness ==
  /\ ret.op = "searchJots" /\ ~ret.args[1].includeExpired
  /\ \E j \in db.jots : j.expires_at # NULL /\ j.expires_at <= ret.args[2]
  /\ Len(ret.result) >= 1

\* C9: sweep correctness: deleteExpiredJots at time t deletes every jot whose
\* expiresAt is non-null and has passed at t, returns the number of jots it
\* deleted, and never deletes a jot whose expiresAt is null or in the future;
\* those stay retrievable with unchanged fields, tags and metadata.
C9_SweepCorrectness ==
  [][StepOf("deleteExpiredJots") =>
       /\ \A j \in db.jots :
            (j.expires_at # NULL /\ j.expires_at < now) => getJot(db', j.id) = NoJot
       /\ ret'.result = Cardinality(db.jots) - Cardinality(db'.jots)
       /\ db'.jots \subseteq db.jots
       /\ \A j \in db.jots :
            (j.expires_at = NULL \/ j.expires_at > now) =>
               (getJot(db', j.id) # NoJot /\ getJot(db', j.id) = getJot(db, j.id))]_vars

\* a sweep removed a jot and left one that is permanent or expires later
C9_Witness ==
  /\ ret.op = "deleteExpiredJots" /\ ret.result >= 1
  /\ \E j \in db.jots : j.expires_at = NULL \/ j.expires_at > ret.args[1]

\* C10 as claimed: the sweep at time t only removes jots with expiresAt < t; a
\* jot whose expiresAt equals t is not removed.
C10_SweepStrictlyPassed ==
  [][StepOf("deleteExpiredJots") =>
       \A j \in db.jots :
          getJot(db', j.id) = NoJot => (j.expires_at # NULL /\ j.expires_at < now)]_vars

\* C10 as amended: the sweep at time t removes exactly the jots whose
\* expiresAt is non-null and at or before t: one that expires at t is removed,
\* one that expires after t is not.
C10_SweepAtOrBefore ==
  [][StepOf("deleteExpiredJots") =>
       \A j \in db.jots :
          getJot(db', j.id) = NoJot <=> (j.expires_at # NULL /\ j.expires_at <= now)]_vars

\* a sweep at time t removed a jot that expires at t
C10_Witness ==
  /\ ret.op = "deleteExpiredJots"
  /\ \E j \in ret.removed : j.expires_at = ret.args[1]

\* C11: a sweep is never needed for correct default reads: a default search
\* (includeExpired absent or false) at any time t returns the same sequences
\* whether or not deleteExpiredJots ran at a time up to t, and the set the
\* sweep removes at t is exactly the set the default filter hides at t.
C11_SweepNotNeeded ==
  [][StepOf("deleteExpiredJots") =>
       /\ \A o \in SearchArgsExpiry, t \in now..MaxTime :
            ~o.includeExpired => searchJots(db', o, t) = searchJots(db, o, t)
       /\ ret'.removed = db.jots \ {r.j : r \in SearchDistinct(db, NoFilters, now)}]_vars

\* a default search returned a jot after a sweep had removed another one (in
\* SpecExpiry only the sweep deletes jots)
C11_Witness ==
  /\ ret.op = "searchJots" /\ ~ret.args[1].includeExpired
  /\ Len(ret.result) >= 1
  /\ db.seq_jots > Cardinality(db.jots)

\* C12: updateJot replaces collections: after updateJot(id, {tags: T}) the
\* tag set of the jot is exactly the set of T, and after
\* updateJot(id, {metadata: M}) its metadata is exactly M.
C12_UpdateReplacesCollections ==
  [][StepOf("updateJot") /\ getJot(db, ret'.args[1]) # NoJot =>
       LET u == ret'.args[2]
           after == getJot(db', ret'.args[1])
       IN /\ "tags" \in u.has => after.tags = Range(u.tags)
          /\ "metadata" \in u.has => after.metadata = u.metadata]_vars

\* C13: update partiality: updateJot leaves each field that is not supplied
\* as it was, and never changes the jot's id, contextId and createdAt.
C13_UpdatePartiality ==
  [][StepOf("updateJot") /\ getJot(db, ret'.args[1]) # NoJot =>
       LET u == ret'.args[2]
           before == getJot(db, ret'.args[1])
           after == getJot(db', ret'.args[1])
       IN /\ after # NoJot
          /\ after.id = before.id
          /\ after.contextId = before.contextId
          /\ after.createdAt = before.createdAt
          /\ "message" \notin u.has => after.message = before.message
          /\ "expiresAt" \notin u.has => after.expiresAt = before.expiresAt
          /\ "tags" \notin u.has => after.tags = before.tags
          /\ "metadata" \notin u.has => after.metadata = before.metadata
          /\ \A j \in db.jots : j.id # before.id => getJot(db', j.id) = getJot(db, j.id)]_vars

\* an update that supplied only the expiration changed it on a jot whose
\* message, tags and metadata had been changed before, at a later time than
\* the jot was created
C13_Witness ==
  /\ ret.op = "updateJot" /\ ~ret.threw /\ ret.result # NoJot
  /\ ret.args[2].has = {"expiresAt"}
  /\ ret.result.expiresAt = 2
  /\ ret.result.message = <<"fix">>
  /\ ret.result.tags = {"urgent"}
  /\ ret.result.metadata = {<<"k", "w">>}
  /\ ret.result.createdAt < now
  /\ Cardinality(db.jots) = 2

\* C14: every successful updateJot that changes a field (message, expiresAt,
\* tags or metadata, alone or combined) sets the jot's updatedAt and the
\* owning context's updatedAt to the time of the call.
C14_UpdateStampsTime ==
  [][(/\ StepOf("updateJot")
      /\ ~ret'.threw /\ ret'.result # NoJot
      /\ ret'.args[2].has # {}) =>
        /\ ret'.result.updatedAt = now
        /\ getContext(db', ret'.result.contextId).updatedAt = now]_vars

\* C15: absence is a value, not a fault: for an id or name that matches no
\* row getContext and getJot return absent, updateJot returns absent,
\* deleteJot and deleteContext return false, none throws and the store is
\* unchanged; deleteJot and deleteContext return true exactly when a row
\* existed, and then it is removed.
C15_AbsenceIsAValue ==
  [][/\ StepOf("getContext") =>
          /\ ~ret'.threw /\ db' = db
          /\ ret'.result = NoContext <=>
               IF ret'.args[1].type = "number"
               THEN \A c \in db.contexts : c.id # ret'.args[1].id
               ELSE \A c \in db.contexts : c.name # ret'.args[1].name
     /\ StepOf("getJot") =>
          /\ ~ret'.threw /\ db' = db
          /\ ret'.result = NoJot <=> \A j \in db.jots : j.id # ret'.args[1]
     /\ (StepOf("updateJot") /\ \A j \in db.jots : j.id # ret'.args[1]) =>
          (~ret'.threw /\ ret'.result = NoJot /\ db' = db)
     /\ StepOf("deleteJot") =>
          /\ ~ret'.threw
          /\ ret'.result <=> \E j \in db.jots : j.id = ret'.args[1]
          /\ \A j \in db'.jots : j.id # ret'.args[1]
          /\ ~ret'.result => db' = db
     /\ StepOf("deleteContext") =>
          /\ ~ret'.threw
          /\ ret'.result <=> \E c \in db.contexts : c.id = ret'.args[1]
          /\ \A c \in db'.contexts : c.id # ret'.args[1]
          /\ ~ret'.result => db' = db
     /\ StepOf("JotService.deleteContext") =>
          LET x == ret'.args[1]
              matches(c) == IF x.type = "number" THEN c.id = x.id ELSE c.name = x.name
          IN /\ ~ret'.threw
             /\ ret'.result <=> \E c \in db.contexts : matches(c)
             /\ \A c \in db'.contexts : ~matches(c)
             /\ ~ret'.result => db' = db]_vars

\* a context was asked to be deleted by a name that matches none, while
\* another context and a jot are stored
C15_Witness ==
  /\ ret.op = "JotService.deleteContext" /\ ~ret.result
  /\ ret.args[1].type = "string"
  /\ db.contexts # {} /\ db.jots # {}

\* C16: malformed search input fails fast: searchJots with a limit that is
\* supplied and not positive, or with a date bound that is not a valid
\* timestamp, raises an error instead of returning a result.
C16_MalformedSearchFails ==
  ret.op = "searchJots" =>
    LET o == ret.args[1]
    IN (\/ o.limit # Undefined /\ o.limit <= 0
        \/ o.fromDate = NaN
        \/ o.toDate = NaN) => ret.threw

\* the search input is well formed: every number supplied is a valid one
WellFormed(o) ==
  /\ o.limit = Undefined \/ o.limit > 0
  /\ o.fromDate # NaN /\ o.toDate # NaN

\* the jot is not expired at time t
Live(j, t) == j.expiresAt = NULL \/ j.expiresAt > t

\* C17: search filters are conjunctive with OR inside the tag list: without a
\* limit searchJots returns exactly the stored jots that satisfy every
\* supplied filter (contextId equal, full-text match, createdAt >= fromDate,
\* createdAt <= toDate, at least one of the tags, not expired unless
\* includeExpired).
C17_FiltersConjunctive ==
  (ret.op = "searchJots" /\ WellFormed(ret.args[1]) /\ ret.args[1].limit = Undefined) =>
    LET o == ret.args[1]
        t == ret.args[2]
    IN Range(ret.result) =
         {j \in StoredJots(db) :
            SatisfiesOtherFilters(j, o) /\ (~o.includeExpired => Live(j, t))}

\* C18: for every combination of filters the result of searchJots is ordered
\* by createdAt descending and holds each jot at most once, also a jot that
\* matches several of the requested tags.
C18_OrderedNoDuplicates ==
  ret.op = "searchJots" =>
    LET res == ret.result
    IN /\ \A i, k \in DOMAIN res : i < k => res[i].createdAt >= res[k].createdAt
       /\ \A i, k \in DOMAIN res : i # k => res[i].id # res[k].id

\* a search for two tags returned a newer jot that has both and an older one
C18_Witness ==
  /\ ret.op = "searchJots"
  /\ ret.args[1].tags = <<"bug", "urgent">> /\ ret.args[1].limit = Undefined
  /\ Len(ret.result) = 2
  /\ ret.result[1].tags = {"bug", "urgent"}
  /\ ret.result[1].createdAt > ret.result[2].createdAt

Min(a, b) == IF a < b THEN a ELSE b

\* C19: the limit applies to the final, deduplicated and ordered result: with
\* a positive limit n the result is the first min(n, |R|) elements of a result
\* R the same query returns without limit.
C19_LimitOnFinalResult ==
  (ret.op = "searchJots" /\ ret.args[1].limit > 0) =>
    LET o == ret.args[1]
        t == ret.args[2]
    IN \E R \in searchJots(db, [o EXCEPT !.limit = Undefined], t) :
         ret.result = SubSeq(R, 1, Min(o.limit, Len(R)))

\* a search for two tags with limit 2 returned two jots, the first of which
\* has both tags
C19_Witness ==
  /\ ret.op = "searchJots"
  /\ ret.args[1].tags = <<"bug", "urgent">> /\ ret.args[1].limit = 2
  /\ Len(ret.result) = 2
  /\ ret.result[1].tags = {"bug", "urgent"}

\* C20: the full-text index is never stale: in every reachable state it holds
\* exactly one entry per stored jot, with the jot's current message, and
\* searchJots({query: w, includeExpired: true}) returns exactly the stored
\* jots whose current message contains the word w.
C20_IndexNeverStale ==
  /\ db.jots_fts = {FtsEntry(j) : j \in db.jots}
  /\ \A j \in db.jots : Cardinality({e \in db.jots_fts : e.rowid = j.id}) = 1
  /\ (ret.op = "searchJots" /\ Len(ret.args[1].query) = 1) =>
        Range(ret.result) =
          {j \in StoredJots(db) : ret.args[1].query[1] \in Range(j.message)}

\* a search found a jot by the word its message was changed to, after
\* another jot had been deleted
C20_Witness ==
  /\ ret.op = "searchJots" /\ ret.args[1].query = <<"fix">>
  /\ Len(ret.result) = 1 /\ ret.result[1].message = <<"fix">>
  /\ db.seq_jots > Cardinality(db.jots)

\* C21: round trip: createJot(contextId, message, expiresAt, tags, metadata)
\* on an existing context, followed immediately by getJot(id), returns a jot
\* with the same contextId, message and expiresAt, the set of the supplied
\* tags and the supplied metadata.
C21_RoundTrip ==
  [][(StepOf("createJot") /\ getContext(db, ret'.args[1]) # NoContext) =>
       LET a == ret'.args
           j == getJot(db', db.seq_jots + 1)
       IN /\ ~ret'.threw /\ ret'.result = j
          /\ j # NoJot
          /\ j.contextId = a[1] /\ j.message = a[2] /\ j.expiresAt = a[3]
          /\ j.tags = Range(a[4])
          /\ j.metadata = a[5]]_vars

\* the text without the piece at its end, if it ends with it
StripTrailing(s, piece) ==
  IF s # <<>> /\ s[Len(s)] = piece THEN SubSeq(s, 1, Len(s) - 1) ELSE s

\* what follows the last path separator of either kind
BaseName(path) ==
  LET at == {i \in DOMAIN path : path[i] \in {"/", "\\"}}
  IN IF at = {} THEN path
     ELSE SubSeq(path, (CHOOSE i \in at : \A k \in at : k <= i) + 1, Len(path))

\* C24: the auto-detected name follows the fallback chain: with remote URL
\* and branch readable it is the repository name (the last path segment of
\* the URL without a trailing '.git'), alone on branch main or master, else
\* "{repository}/{branch}"; when source-control detection fails it is the
\* base name of the working directory; when that is unavailable, empty or a
\* bare separator it is 'general'.
C24_DetectionChain ==
  ret.op = "detectCurrentContext" =>
    LET env == ret.args[1]
        repository == StripTrailing(BaseName(trim(env.remote)), ".git")
        branch == trim(env.branch)
    IN /\ ~ret.threw
       /\ ret.result =
            IF env.remote # ExecThrows /\ env.branch # ExecThrows
            THEN IF branch \in {<<"main">>, <<"master">>} THEN repository
                 ELSE repository \o <<"/">> \o branch
            ELSE IF env.cwd # ExecThrows /\ BaseName(env.cwd) # <<>>
                 THEN BaseName(env.cwd)
                 ELSE <<"general">>

C25_TtlComputation ==
  [][LET Rule(ttl, e) ==
           /\ ttl.type = "undefined" => e = now + 14 * 86400000
           /\ (ttl.type = "number" /\ ttl.days = 0) => e = NULL
           /\ (ttl.type = "number" /\ ttl.days > 0) => e = now + ttl.days * 86400000
           /\ (ttl.type = "number" /\ ttl.days < 0) => (e # NULL /\ e < now)
     IN /\ (StepOf("JotService.createJot") /\ getJot(db', db.seq_jots + 1) # NoJot) =>
             (/\ ~ret'.threw
              /\ Rule(ret'.args[1].ttlDays, ret'.result.expiresAt))
        /\ (/\ StepOf("JotService.updateJot")
            /\ getJot(db, ret'.args[1]) # NoJot
            /\ "ttlDays" \in ret'.args[2].has) =>
             (/\ ~ret'.threw
              /\ Rule(ret'.args[2].ttlDays, ret'.result.expiresAt))]_vars

\* a jot with the default expiration was updated with a negative ttlDays at
\* a later time and now expires before that time
C25_Witness ==
  /\ ret.op = "JotService.updateJot" /\ ~ret.threw /\ ret.result # NoJot
  /\ ret.args[2].ttlDays = Days(-1)
  /\ ret.result.expiresAt # NULL /\ ret.result.expiresAt < now
  /\ ret.result.createdAt < now

\* C26: a ttlDays of null means permanent, like 0: creating a jot, or updating
\* one through service updateJot, with ttlDays null gives expiresAt null.
C26_NullTtlIsPermanent ==
  [][/\ (/\ StepOf("JotService.createJot") /\ ~ret'.threw
         /\ ret'.args[1].ttlDays = TtlNull) => ret'.result.expiresAt = NULL
     /\ (/\ StepOf("JotService.updateJot") /\ ret'.result # NoJot
         /\ "ttlDays" \in ret'.args[2].has
         /\ ret'.args[2].ttlDays = TtlNull) => ret'.result.expiresAt = NULL]_vars

\* the jot rows a context owns
OwnedJots(d, contextId) == {j \in d.jots : j.context_id = contextId}

\* C27: jotCount is the live count: the jotCount that getContext,
\* getContextByName, listContexts (and upsertContext) return for a context is
\* the number of jot rows it owns at that time, 0 for a context just created.
C27_JotCountIsLive ==
  /\ ret.op = "getContext" /\ ret.result # NoContext =>
       ret.result.jotCount = Cardinality(OwnedJots(db, ret.result.id))
  /\ ret.op = "listContexts" =>
       \A i \in DOMAIN ret.result :
          ret.result[i].jotCount = Cardinality(OwnedJots(db, ret.result[i].id))
  /\ ret.op = "upsertContext" /\ ~ret.threw =>
       ret.result.jotCount = Cardinality(OwnedJots(db, ret.result.id))

\* the list shows a context with one jot and one with none, after a jot was
\* deleted or swept
C27_Witness ==
  /\ ret.op = "listContexts" /\ Len(ret.result) = 2
  /\ \E i, k \in DOMAIN ret.result :
        ret.result[i].jotCount = 1 /\ ret.result[k].jotCount = 0
  /\ db.seq_jots = 2

\* s lists every context of d once, last modified first
ListedOnceByLastModified(d, s) ==
  /\ Len(s) = Cardinality(d.contexts)
  /\ {s[i].id : i \in DOMAIN s} = {c.id : c \in d.contexts}
  /\ \A i, k \in DOMAIN s : i < k => s[i].updatedAt >= s[k].updatedAt

\* the step is a call of op that returned a jot
ReturnedJot(op) == StepOf(op) /\ ~ret'.threw /\ ret'.result # NoJot

\* the step stamps the context of the jot it returned with the time of the call
StampsContext(op) ==
  ReturnedJot(op) => getContext(db', ret'.result.contextId).updatedAt = now

\* no two of the calls that created the contexts and the jots of d were made
\* at the same time, and no two contexts were last modified at the same time
StrictClock(d) ==
  /\ \A c1, c2 \in d.contexts :
        c1 # c2 => c1.created_at # c2.created_at /\ c1.updated_at # c2.updated_at
  /\ \A c \in d.contexts, j \in d.jots : c.created_at # j.created_at
  /\ \A j1, j2 \in d.jots : j1 # j2 => j1.created_at # j2.created_at

\* the call that stored each jot of d went on to stamp the jot's context
AllStamped(d) ==
  \A j \in d.jots : \E c \in d.contexts :
     c.id = j.context_id /\ c.updated_at >= j.created_at

CreatedContext ==
  /\ StepOf("upsertContext") /\ ~ret'.threw
  /\ \A c \in db.contexts : c.id # ret'.result.id

C29_ExpiringSoon ==
  ret.op = "getExpiringSoon" =>
    LET days == ret.args[1]
        t == ret.args[2]
        s == ret.result
    IN /\ {s[i] : i \in DOMAIN s} =
            {mapJot(db, j) : j \in {x \in db.jots : /\ x.expires_at # NULL
                                                    /\ x.expires_at > t
                                                    /\ x.expires_at <= t + days * 86400000}}
       /\ \A i, k \in DOMAIN s : i # k => s[i].id # s[k].id
       /\ \A i, k \in DOMAIN s : i < k => s[i].expiresAt <= s[k].expiresAt
       /\ \A i \in DOMAIN s : s[i].expiresAt # NULL /\ s[i].expiresAt > t

\* a one-day window leaves out a permanent jot, a jot expiring now, and a jot
\* expiring a millisecond after the window, and returns the jot expiring at
\* the window's last millisecond
C29_Witness ==
  /\ ret.op = "getExpiringSoon" /\ ret.args[1] = 1
  /\ Len(ret.result) = 1
  /\ ret.result[1].expiresAt = ret.args[2] + 86400000
  /\ \E j \in db.jots : j.expires_at = ret.args[2] + 86400000 + 1 \/ j.expires_at = NULL
                        \/ j.expires_at = ret.args[2]

\* C30: initialization is idempotent and loses no data: initializeDatabase on
\* a location already initialized, whatever it holds, succeeds, creates no
\* duplicate schema object, and leaves every row of contexts, jots, tags and
\* metadata, the full-text index and the id counters as they were.
C30_InitializationIdempotent ==
  [][StepOf("initializeDatabase") =>
       /\ ~ret'.threw
       /\ ~HasDuplicates(db'.schema)
       /\ db'.schema = SchemaObjects
       /\ db' = db]_vars

\* the store initialized again holds a context, a jot, a tag, a metadata
\* entry and an index entry, and a jot was deleted before
C30_Witness ==
  /\ ret.op = "initializeDatabase" /\ ~ret.threw
  /\ db.contexts # {} /\ db.jots # {} /\ db.tags # {} /\ db.metadata # {}
  /\ db.jots_fts # {}
  /\ db.seq_jots > Cardinality(db.jots)

\* the request that ret answers
IsListJots == ret.op = "callTool" /\ ret.args[1] = "list_jots"

\* the stored jots that satisfy the context, query and tags of a list_jots
\* request (a context that is not named, "*" and "all" admit every jot)
Requested(d, args) ==
  {mapJot(d, j) : j \in {x \in d.jots :
     /\ ("context" \in args.has /\ args.context \notin {<<>>, <<"*">>, <<"all">>}) =>
          x.context_id = getContextByName(d, args.context).id
     /\ "query" \in args.has => Range(args.query) \subseteq Range(x.message)
     /\ "tags" \in args.has /\ args.tags # <<>> =>
          \E r \in d.tags : r.jot_id = x.id /\ r.tag \in Range(args.tags)}}

\* C31: list_jots honours includeExpired: a request with includeExpired = true
\* that names a context, "*" or "all" lists every stored jot that is expired
\* and satisfies its other filters, with or without a query, tags or dates.
C31_ListHonoursIncludeExpired ==
  (/\ IsListJots /\ ~ret.result.isError
   /\ "includeExpired" \in ret.args[2].has /\ ret.args[2].includeExpired
   /\ "context" \in ret.args[2].has) =>
     \A j \in Requested(db, ret.args[2]) :
        ~Live(j, ret.args[4]) => j \in Range(ret.result.jots)

\* C32: a list_jots request that names a context other than "*" and "all"
\* returns only jots of the context of that name, in list mode and in search
\* mode, and none when no context has that name.
C32_NamedContextOnly ==
  (/\ IsListJots
   /\ "context" \in ret.args[2].has
   /\ ret.args[2].context \notin {<<>>, <<"*">>, <<"all">>}) =>
     \A i \in DOMAIN ret.result.jots :
        /\ getContextByName(db, ret.args[2].context) # NoContext
        /\ ret.result.jots[i].contextId = getContextByName(db, ret.args[2].context).id

\* ret answers a request that schedules the sweep
SchedulesSweep(r) ==
  /\ r.op = "callTool"
  /\ \/ r.args[1] = "list_jots"
     \/ r.args[1] = "context" /\ r.args[2].operation = "list"

\* jot id is stored and was expired when the request that ret answers arrived
ExpiredAtRequest(id) ==
  /\ SchedulesSweep(ret)
  /\ \E j \in db.jots : j.id = id /\ j.expires_at # NULL /\ j.expires_at <= ret.args[4]

Stored(id) == \E j \in db.jots : j.id = id

\* the request leaves the store as it was and its sweep waiting, and a search
\* with includeExpired shows what the sweep will remove
RespondsBeforeSweep ==
  [][(ret' # ret /\ SchedulesSweep(ret')) =>
        /\ db' = db
        /\ immediates' = immediates + 1
        /\ ("includeExpired" \in ret'.args[2].has /\ ~ret'.result.isError) =>
              \A j \in ExpiredRows(db, now) : mapJot(db, j) \in Range(ret'.result.jots)]_vars

\* C33 as stated: the response of list_jots and of context list is computed
\* from the store before the scheduled cleanupExpired runs, and with the
\* callback scheduled fairly every jot that was expired at the time of the
\* request is eventually deleted.
C33_SweepEventuallyDeletes ==
  /\ RespondsBeforeSweep
  /\ \A id \in JotIdArgs : ExpiredAtRequest(id) ~> ~Stored(id)

\* C33, amended: the response is computed from the store before the scheduled
\* cleanupExpired runs, and with the callback scheduled fairly every jot that
\* was expired at the time of the request is eventually deleted, unless an
\* update that arrives before the sweep gives it no expiration or a later one.
C33_SweepEventuallyDeletesOrSpares ==
  /\ RespondsBeforeSweep
  /\ \A id \in JotIdArgs :
        ExpiredAtRequest(id) ~>
          (~Stored(id) \/ \E j \in db.jots : j.id = id
                                             /\ (j.expires_at = NULL \/ j.expires_at > now))

\* a scheduled sweep ran and removed one jot while another stayed
C33_Witness ==
  /\ ret.op = "cleanupExpired" /\ Cardinality(ret.removed) = 1
  /\ db.jots # {}

\* C34: deleteExpiredJots is safe to repeat: a second call immediately after a
\* first, with no create or update between them and at the same clock value,
\* deletes nothing, returns 0 and leaves the store unchanged.
C34_SweepRepeatable ==
  [][(ret.op = "deleteExpiredJots" /\ ret.args[1] = now /\ StepOf("deleteExpiredJots")) =>
        /\ ret'.removed = {} /\ ret'.result = 0 /\ ~ret'.threw
        /\ db' = db]_vars

\* a sweep that found nothing to remove in a store an earlier sweep emptied
\* of two jots
C34_Witness ==
  /\ ret.op = "deleteExpiredJots" /\ ret.result = 0
  /\ db.jots = {} /\ db.seq_jots = 2

\* the step is a getJot or an updateJot of an id that is not stored
ByIdOfAbsent ==
  /\ StepOf("getJot") \/ StepOf("updateJot")
  /\ \A j \in db.jots : j.id # ret'.args[1]

\* C35: lookups and updates by id ignore expiration: until a sweep removes
\* it, an expired jot is still returned by getJot and accepted by updateJot,
\* and an updateJot that sets its expiresAt to null or to a future time makes
\* it appear again in default searchJots; once a sweep has run at time t,
\* updateJot and getJot on a jot that was expired at t return absent.
C35_ByIdIgnoresExpiration ==
  [][/\ StepOf("getJot") =>
          \A j \in db.jots : j.id = ret'.args[1] => ret'.result = mapJot(db, j)
     /\ StepOf("updateJot") =>
          \A j \in db.jots : j.id = ret'.args[1] =>
             /\ ~ret'.threw /\ ret'.result = getJot(db', j.id) /\ ret'.result # NoJot
             /\ LET u == ret'.args[2]
                IN ("expiresAt" \in u.has /\ (u.expiresAt = NULL \/ u.expiresAt > now)) =>
                      \A s \in searchJots(db', NoFilters, now) : ret'.result \in Range(s)
     /\ StepOf("deleteExpiredJots") =>
          \A j \in db.jots : (j.expires_at # NULL /\ j.expires_at <= now) =>
             /\ getJot(db', j.id) = NoJot
             /\ \A u \in UpdateArgsLifetime :
                   updateJotCall(db', now, j.id, u) = [db |-> db', threw |-> FALSE, result |-> NoJot]
     /\ ByIdOfAbsent => (ret'.result = NoJot /\ ~ret'.threw /\ db' = db)
     /\ \A id \in JotIdArgs : (id <= db.seq_jots /\ getJot(db, id) = NoJot) => getJot(db', id) = NoJot
    ]_vars

\* getJot has returned a jot whose expiration has passed
C35_Witness ==
  /\ ret.op = "getJot" /\ ret.result # NoJot
  /\ ret.result.expiresAt # NULL /\ ret.result.expiresAt <= now

\* C36: identifiers are durable and never reused: after a jot or context is
\* deleted (explicitly, by cascade or by a sweep), no later createJot or
\* upsertContext returns the same id, so an id held by a caller never comes to
\* denote a different jot or context.  (seq_jots and seq_contexts are the
\* largest ids handed out so far.)
C36_IdsNeverReused ==
  [][/\ db'.seq_jots >= db.seq_jots /\ db'.seq_contexts >= db.seq_contexts
     /\ \A j \in db'.jots : j.id <= db'.seq_jots
     /\ \A c \in db'.contexts : c.id <= db'.seq_contexts
     /\ \A j \in db'.jots : j.id <= db.seq_jots =>
           \E k \in db.jots : /\ k.id = j.id /\ k.created_at = j.created_at
                              /\ k.context_id = j.context_id
     /\ \A c \in db'.contexts : c.id <= db.seq_contexts =>
           \E k \in db.contexts : k.id = c.id /\ k.created_at = c.created_at /\ k.name = c.name
     /\ (StepOf("createJot") /\ ~ret'.threw) =>
           /\ ret'.result.id > db.seq_jots
           /\ \A k \in db.jots : k.id # ret'.result.id
     /\ (StepOf("upsertContext") /\ ~ret'.threw
           /\ getContextByName(db, ret'.args[1]) = NoContext) =>
           /\ ret'.result.id > db.seq_contexts
           /\ \A k \in db.contexts : k.id # ret'.result.id
    ]_vars

\* after the first context and its jot were deleted, the context created next
\* is context 2 and the jot created next is jot 2
C36_Witness ==
  /\ ret.op = "createJot" /\ ~ret.threw
  /\ ret.result.id = 2 /\ ret.result.contextId = 2
  /\ Cardinality(db.jots) = 1 /\ Cardinality(db.contexts) = 1

\* the store d without the jots of `gone`, their tags, metadata and index entries
WithoutJots(d, gone) ==
  LET ids == {j.id : j \in gone}
  IN [d EXCEPT !.jots = @ \ gone,
               !.tags = {r \in @ : r.jot_id \notin ids},
               !.metadata = {r \in @ : r.jot_id \notin ids},
               !.jots_fts = {e \in @ : e.rowid \notin ids}]

\* C37: frame of deletions: deleteJot(id) and deleteExpiredJots change nothing
\* except the removed jots and their tags, metadata and index entries; every
\* context row (name, repository, createdAt, last-modified timestamp) and
\* every other jot with its tags and metadata are unchanged, so deleting a
\* jot does not bump its context's last-modified time.
C37_DeletionFrame ==
  [][/\ StepOf("deleteJot") =>
          /\ db' = WithoutJots(db, {j \in db.jots : j.id = ret'.args[1]})
          /\ ret'.result = (\E j \in db.jots : j.id = ret'.args[1])
     /\ StepOf("deleteExpiredJots") =>
          db' = WithoutJots(db, {j \in db.jots : j.expires_at # NULL /\ j.expires_at <= now})
     /\ (StepOf("deleteJot") \/ StepOf("deleteExpiredJots")) =>
          /\ db'.contexts = db.contexts
          /\ \A c \in db.contexts : getContext(db', c.id).updatedAt = c.updated_at
          /\ \A j \in db'.jots : j \in db.jots /\ mapJot(db', j) = mapJot(db, j)
    ]_vars

\* one of two jots was deleted after the clock had advanced, and the context
\* still has the time of its last createJot or updateJot
C37_Witness ==
  /\ ret.op = "deleteJot" /\ ret.result = TRUE
  /\ Cardinality(db.jots) = 1 /\ db.seq_jots = 2
  /\ \E c \in db.contexts : c.updated_at < now /\ \A j \in db.jots : j.context_id = c.id

\* C38: interleaved upserts from two server processes sharing one store file
\* keep names unique: for every interleaving of the lookup and insert steps
\* of two upsertContext(n) calls, at most one context named n exists
\* afterwards, and both calls complete without error returning the same
\* context id.
C38_InterleavedUpserts ==
  /\ \A c, k \in db.contexts : c.name = k.name => c = k
  /\ \A p, q \in Procs :
       (/\ p # q
        /\ inflight[p].pc = "returned" /\ inflight[q].pc = "returned"
        /\ inflight[p].name = inflight[q].name) =>
          /\ ~inflight[p].threw /\ ~inflight[q].threw
          /\ inflight[p].result.id = inflight[q].result.id

ErrorResponse(message) ==
  [isError |-> TRUE, text |-> Text(<<"Error: ">> \o message, 0, <<>>), jots |-> <<>>]

\* C39: the tool request handler never lets a fault escape and never
\* half-applies a rejected request: an unknown tool name, an unknown
\* 'operation' for the jot or context tool, or an error raised by the service
\* yields a response with isError = true carrying the error message, and for
\* unknown tool/operation the store is unchanged.
C39_FaultsBecomeErrorResponses ==
  [][StepOf("callTool") =>
       LET name == ret'.args[1]
           args == ret'.args[2]
           unknownTool == name \notin {"jot", "list_jots", "context"}
           unknownOp == \/ name = "jot" /\ args.operation \notin {"create", "update", "delete"}
                        \/ name = "context" /\ args.operation \notin {"list", "delete"}
       IN /\ ~ret'.threw
          /\ unknownTool =>
               /\ ret'.result = ErrorResponse(<<"Unknown tool: ", name>>)
               /\ db' = db /\ immediates' = immediates
          /\ unknownOp =>
               /\ ret'.result = ErrorResponse(<<"Unknown operation: ", args.operation>>)
               /\ db' = db /\ immediates' = immediates
          /\ \E r \in CallToolOutcomes(db, now, name, args, ret'.args[3]) :
                /\ db' = r.db
                /\ r.threw => ret'.result = ErrorResponse(r.error)
                /\ ~r.threw => ~ret'.result.isError /\ ret'.result.text = r.text
    ]_vars

\* the store raised during a create and the response says so
C39_Witness ==
  /\ ret.op = "callTool" /\ ret.args[1] = "jot" /\ ret.args[2].operation = "create"
  /\ ret.result.isError
  /\ ret.result.text.header = <<"Error: ", "SqliteError">>

====
